---- MODULE Spec2Model ----
(***************************************************************************)
(* A model of the scroll-progress tracker of src/src/scroll_storyteller.rs *)
(* (ScrollProgress and ScrollStoryteller).                                 *)
(*                                                                         *)
(* Numbers.  The f64 measurements of the source (scroll_top, scroll_height *)
(* and client_height are i32 values of the DOM cast to f64, the offsets    *)
(* are f64 configuration values) are modelled by integers.  A quotient of  *)
(* two of them is an extended rational [n, d]: d > 0 is the reduced        *)
(* fraction n/d, d = 0 is +infinity (n = 1), -infinity (n = -1) or NaN     *)
(* (n = 0), which is what an f64 division by 0.0 yields.  Rounding of the  *)
(* f64 quotient is not modelled.  performance.now() is read in whole       *)
(* milliseconds.                                                           *)
(***************************************************************************)
EXTENDS Integers, Sequences, FiniteSets, TLC

VARIABLES
    sp,               \* a standalone ScrollProgress value (the pure function's subject)
    phase,            \* "init" before ScrollStoryteller::new has run, then "live"
    cfg,              \* ScrollStorytellerConfig
    now,              \* performance.now()
    last_progress,    \* RwSignal<ScrollProgress>
    callbacks,        \* Vec<Box<dyn Fn(ScrollProgress)>>, as subscriber ids
    last_scroll_time, \* Rc<Cell<f64>>
    last_resize_time, \* Rc<Cell<f64>>
    raf,              \* the request_animation_frame task of construction
    ev,               \* the handler run by the last step and what it decided
    calls,            \* the subscriber invocations made by the last step, in order
    read,             \* what the last step read from the container and the window
    commanded,        \* the scroll position the last step asked of the container
    call,             \* the public function the last step called: arguments and result
    subs,             \* the range subscriptions, in the order of their registration
    fired,            \* the range callbacks invoked by the last step, in order
    panicked,         \* a Rust panic aborted the program
    scroll_accepted_at, \* history: clock reading of the last accepted scroll event, -1 if none
    scroll_accepted_before, \* history: the same of the accepted scroll event before that one
    resize_accepted_at, \* history: clock reading of the last accepted resize event, -1 if none
    observer,         \* the Intersectioner: its callback table and what it has called
    listeners,        \* the tracker's listeners on the container and the window, and its scroll closure
    pair,             \* the trackers constructed on one shared container, and the cells they hold
    infinite,         \* the handler of setup_infinite_scroll: its flag and the load it spawned
    container         \* the tracked container as the host keeps it, where a run follows it

vars == <<sp, infinite, container, pair, listeners, observer, phase, cfg, now, last_progress, callbacks,
          last_scroll_time, last_resize_time, raf, ev, calls, read, commanded,
          call, subs, fired,
          panicked, scroll_accepted_at, scroll_accepted_before,
          resize_accepted_at>>

trackerVars == <<infinite, container, pair, listeners, observer, phase, cfg, now, last_progress, callbacks,
                 last_scroll_time, last_resize_time, raf, ev, calls, read,
                 commanded, subs, fired,
                 scroll_accepted_at, scroll_accepted_before,
                 resize_accepted_at>>

(***************************************************************************)
(* Bounds of the model.                                                    *)
(***************************************************************************)
MaxPx == 1
MaxTime == 4
MaxSubs == 2
ValueSteps == 16
MaxElems == 2
MaxHits == 2
MaxAwaits == 2

Pixels == 0..MaxPx
ScenarioPx == {200, 400, 800, 1000}
\* the arguments of ScrollProgress::new, a public constructor: any f64
PureOffsets == (-1..MaxPx) \cup ScenarioPx
PureExtents == (-1..MaxPx) \cup ScenarioPx
PureViewports == (-2..MaxPx) \cup ScenarioPx
SubIds == 1..MaxSubs
ThrottleChoices == {2}
DebounceChoices == {3}
OffsetChoices == {0, 1}
\* arguments of scroll_to_pixels
PixelTargets == {-1, MaxPx}

(***************************************************************************)
(* f64 arithmetic on quotients.                                            *)
(***************************************************************************)
Abs(x) == IF x < 0 THEN -x ELSE x

Sign(x) == IF x < 0 THEN -1 ELSE IF x > 0 THEN 1 ELSE 0

RECURSIVE GCD(_, _)
GCD(a, b) == IF b = 0 THEN a ELSE GCD(b, a % b)

\* a / b on f64 values that hold the integers a and b
Div(a, b) ==
    IF b = 0
    THEN [n |-> Sign(a), d |-> 0]
    ELSE LET g == GCD(Abs(a), Abs(b))
             s == Sign(b)
         IN  [n |-> (s * a) \div g, d |-> (s * b) \div g]

One == [n |-> 1, d |-> 1]

Zero == [n |-> 0, d |-> 1]

IsNaN(q) == q.n = 0 /\ q.d = 0

\* f64 comparison: every comparison with NaN is false
Lt(p, q) ==
    /\ ~IsNaN(p)
    /\ ~IsNaN(q)
    /\ IF p.d = 0 /\ q.d = 0 THEN p.n < q.n ELSE p.n * q.d < q.n * p.d

Le(p, q) ==
    /\ ~IsNaN(p)
    /\ ~IsNaN(q)
    /\ IF p.d = 0 /\ q.d = 0 THEN p.n <= q.n ELSE p.n * q.d <= q.n * p.d

\* f64::clamp asserts min <= max and panics otherwise
ClampPanics(lo, hi) == ~Le(lo, hi)

\* f64::clamp(self, min, max), where it does not panic
Clamp(x, lo, hi) == IF Lt(x, lo) THEN lo ELSE IF Lt(hi, x) THEN hi ELSE x

\* (a).max(b) on f64 values that hold integers
MaxF(a, b) == IF a < b THEN b ELSE a

\* q * k - c for a finite quotient q and f64 values k, c that hold integers
ScaleMinus(q, k, c) == Div(q.n * k - c * q.d, q.d)

\* arguments of scroll_to_progress: below, inside and above [0, 1]
ProgressTargets == {Div(-1, 1), Div(1, 2), Div(2, 1)}

\* p + q, p - q, p * q and p / q on finite quotients
Add(p, q) == Div(p.n * q.d + q.n * p.d, p.d * q.d)

Sub(p, q) == Div(p.n * q.d - q.n * p.d, p.d * q.d)

Mul(p, q) == Div(p.n * q.n, p.d * q.d)

Quot(p, q) == Div(p.n * q.d, p.d * q.n)

Half == Div(1, 2)

Two == Div(2, 1)

Four == Div(4, 1)

\* a step that calls none of the logged functions
NoCall == [fn |-> "none", args |-> <<>>, value |-> Zero]

\* a call of fn on args that returned value (Zero where nothing is returned)
Called(fn, args, value) == [fn |-> fn, args |-> args, value |-> value]

(***************************************************************************)
(* ScrollProgress.                                                         *)
(***************************************************************************)
max_scroll(scroll_height, viewport_height) ==
    MaxF(scroll_height - viewport_height, 0)

\* whether calculate_progress panics on these fields
CalcPanics(scroll_y, scroll_height, viewport_height) ==
    /\ max_scroll(scroll_height, viewport_height) > 0
    /\ ClampPanics(Div(viewport_height, scroll_height), One)

\* mutant: the lower clamp bound is 0.0
calculate_progress_floor_zero(scroll_y, scroll_height, viewport_height) ==
    LET m == max_scroll(scroll_height, viewport_height)
    IN  IF m > 0
        THEN Clamp(Div(scroll_y, m), Zero, One)
        ELSE One

\* mutant: content that fits the viewport reads 0.0
calculate_progress_zero_when_fits(scroll_y, scroll_height, viewport_height) ==
    LET m == max_scroll(scroll_height, viewport_height)
    IN  IF m > 0
        THEN Clamp(Div(scroll_y, m), Div(viewport_height, scroll_height), One)
        ELSE Zero

\* mutant: the quotient is bounded below only
calculate_progress_no_ceiling(scroll_y, scroll_height, viewport_height) ==
    LET m == max_scroll(scroll_height, viewport_height)
        q == Div(scroll_y, m)
        lo == Div(viewport_height, scroll_height)
    IN  IF m > 0
        THEN IF Lt(q, lo) THEN lo ELSE q
        ELSE One

\* the value calculate_progress assigns to self.progress
calculate_progress(scroll_y, scroll_height, viewport_height) ==
    LET m == max_scroll(scroll_height, viewport_height)
    IN  IF m > 0
        THEN Clamp(Div(scroll_y, m), Div(viewport_height, scroll_height), One)
        ELSE One

\* ScrollProgress::new
ScrollProgressNew(scroll_y, scroll_height, viewport_height) ==
    [progress        |-> calculate_progress(scroll_y, scroll_height, viewport_height),
     scroll_y        |-> scroll_y,
     scroll_height   |-> scroll_height,
     viewport_height |-> viewport_height]

\* mutant: the field is assigned and progress is left as it was
WithScrollY_stale(p, scroll_y) == [p EXCEPT !.scroll_y = scroll_y]

\* the scroll closure's update: one field assigned, then calculate_progress
WithScrollY(p, scroll_y) ==
    [p EXCEPT !.scroll_y = scroll_y,
              !.progress = calculate_progress(scroll_y, p.scroll_height,
                                              p.viewport_height)]

(***************************************************************************)
(* The standalone value: ScrollProgress::new and calculate_progress are    *)
(* public, and so are the fields.                                          *)
(***************************************************************************)
IdleProgress == ScrollProgressNew(0, 0, 0)

\* ScrollProgress::new(scroll_y, scroll_height, viewport_height)
SPNew(y, h, v) ==
    /\ ~panicked
    /\ IF CalcPanics(y, h, v)
       THEN panicked' = TRUE /\ sp' = sp
       ELSE panicked' = FALSE /\ sp' = ScrollProgressNew(y, h, v)
    /\ call' = NoCall
    /\ UNCHANGED trackerVars

\* value.scroll_y = y; value.calculate_progress()
SPSetScrollY(y) ==
    /\ ~panicked
    /\ IF CalcPanics(y, sp.scroll_height, sp.viewport_height)
       THEN panicked' = TRUE /\ sp' = sp
       ELSE panicked' = FALSE /\ sp' = WithScrollY(sp, y)
    /\ call' = NoCall
    /\ UNCHANGED trackerVars

\* enum EasingFunction
EasingFunction ==
    {"Linear", "EaseIn", "EaseOut", "EaseInOut",
     "EaseInCubic", "EaseOutCubic", "EaseInOutCubic"}

\* mutant: EaseOutCubic without the `1.0 -`
eased_cubic_unflipped(self, easing) ==
    LET x == self.progress
    IN  CASE easing = "Linear" -> x
          [] easing = "EaseIn" -> Mul(x, x)
          [] easing = "EaseOut" -> Sub(One, Mul(Sub(One, x), Sub(One, x)))
          [] easing = "EaseInOut" ->
                 IF Lt(x, Half)
                 THEN Mul(Mul(Two, x), x)
                 ELSE LET t == Add(Mul(Div(-2, 1), x), Two)
                      IN  Sub(One, Quot(Mul(t, t), Two))
          [] easing = "EaseInCubic" -> Mul(Mul(x, x), x)
          [] easing = "EaseOutCubic" ->
                 LET t == Sub(One, x)
                 IN  Mul(Mul(t, t), t)
          [] easing = "EaseInOutCubic" ->
                 IF Lt(x, Half)
                 THEN Mul(Mul(Mul(Four, x), x), x)
                 ELSE LET t == Add(Mul(Div(-2, 1), x), Two)
                      IN  Sub(One, Quot(Mul(Mul(t, t), t), Two))

\* mutant: the second half of EaseInOut without the `/ 2.0`
eased_half_undivided(self, easing) ==
    LET x == self.progress
    IN  CASE easing = "Linear" -> x
          [] easing = "EaseIn" -> Mul(x, x)
          [] easing = "EaseOut" -> Sub(One, Mul(Sub(One, x), Sub(One, x)))
          [] easing = "EaseInOut" ->
                 IF Lt(x, Half)
                 THEN Mul(Mul(Two, x), x)
                 ELSE LET t == Add(Mul(Div(-2, 1), x), Two)
                      IN  Sub(One, Mul(t, t))
          [] easing = "EaseInCubic" -> Mul(Mul(x, x), x)
          [] easing = "EaseOutCubic" ->
                 LET t == Sub(One, x)
                 IN  Sub(One, Mul(Mul(t, t), t))
          [] easing = "EaseInOutCubic" ->
                 IF Lt(x, Half)
                 THEN Mul(Mul(Mul(Four, x), x), x)
                 ELSE LET t == Add(Mul(Div(-2, 1), x), Two)
                      IN  Sub(One, Quot(Mul(Mul(t, t), t), Two))

\* ScrollProgress::eased
eased(self, easing) ==
    LET x == self.progress
    IN  CASE easing = "Linear" -> x
          [] easing = "EaseIn" -> Mul(x, x)
          [] easing = "EaseOut" -> Sub(One, Mul(Sub(One, x), Sub(One, x)))
          [] easing = "EaseInOut" ->
                 IF Lt(x, Half)
                 THEN Mul(Mul(Two, x), x)
                 ELSE LET t == Add(Mul(Div(-2, 1), x), Two)
                      IN  Sub(One, Quot(Mul(t, t), Two))
          [] easing = "EaseInCubic" -> Mul(Mul(x, x), x)
          [] easing = "EaseOutCubic" ->
                 LET t == Sub(One, x)
                 IN  Sub(One, Mul(Mul(t, t), t))
          [] easing = "EaseInOutCubic" ->
                 IF Lt(x, Half)
                 THEN Mul(Mul(Mul(Four, x), x), x)
                 ELSE LET t == Add(Mul(Div(-2, 1), x), Two)
                      IN  Sub(One, Quot(Mul(Mul(t, t), t), Two))

\* mutant: the position is measured from 0.0
in_range_unshifted(self, from, to) ==
    IF Le(self.progress, from)
    THEN Zero
    ELSE IF Le(to, self.progress)
         THEN One
         ELSE Quot(self.progress, Sub(to, from))

\* ScrollProgress::in_range
in_range(self, from, to) ==
    IF Le(self.progress, from)
    THEN Zero
    ELSE IF Le(to, self.progress)
         THEN One
         ELSE Quot(Sub(self.progress, from), Sub(to, from))

\* ScrollProgress::is_in_range
is_in_range(self, from, to) ==
    Le(from, self.progress) /\ Le(self.progress, to)

\* the bounds given to in_range and is_in_range
RangePoints == {Zero, Div(1, 4), Half, Div(3, 4), One}

\* value.eased(easing)
Eased(easing) ==
    /\ ~panicked
    /\ call' = Called("eased", <<easing>>, eased(sp, easing))
    /\ UNCHANGED <<sp, infinite, container, pair, observer, listeners, panicked>>
    /\ UNCHANGED trackerVars

\* value.in_range(from, to)
InRange(from, to) ==
    /\ ~panicked
    /\ call' = Called("in_range", <<from, to>>, in_range(sp, from, to))
    /\ UNCHANGED <<sp, infinite, container, pair, observer, listeners, panicked>>
    /\ UNCHANGED trackerVars

\* value.is_in_range(from, to); the result is logged as 1 for true, 0 for false
IsInRange(from, to) ==
    /\ ~panicked
    /\ call' = Called("is_in_range", <<from, to>>,
                      IF is_in_range(sp, from, to) THEN One ELSE Zero)
    /\ UNCHANGED <<sp, infinite, container, pair, observer, listeners, panicked>>
    /\ UNCHANGED trackerVars

(***************************************************************************)
(* The tracker.                                                            *)
(*                                                                         *)
(* The container element and the window are the environment: a handler     *)
(* reads them when it runs, so each handler takes what it reads as inputs  *)
(* (e: scroll_top, scroll_height, client_height of the element; w:         *)
(* body.client_height() and window.inner_height()).  Between two handlers  *)
(* the environment may change in any way the DOM allows.                   *)
(***************************************************************************)
I32Max == 2147483647
I32Min == -I32Max - 1

\* `x as i32` on an f64 that holds an integer: saturating
AsI32(x) == IF x < I32Min THEN I32Min ELSE IF x > I32Max THEN I32Max ELSE x

\* the viewport extent as construction and the resize handler derive it
ViewportHeight(client_height, body_client_height, inner_height) ==
    LET v == client_height - cfg.offset_top - cfg.offset_bottom
    IN  IF AsI32(v) = body_client_height
        THEN v - (v - inner_height)
        ELSE v

\* the measurement of all three quantities from the container
Measure(e, w) ==
    [scroll_y        |-> e.scroll_top + cfg.offset_top,
     scroll_height   |-> e.scroll_height,
     viewport_height |-> ViewportHeight(e.client_height, w.body_client_height,
                                        w.inner_height)]

\* a step that reads nothing of the container or the window
NoRead ==
    [scroll_top |-> -1, scroll_height |-> -1, client_height |-> -1,
     body_client_height |-> -1, inner_height |-> -1]

\* construction and the resize handler read all of both
ReadAll(e, w) ==
    [scroll_top |-> e.scroll_top, scroll_height |-> e.scroll_height,
     client_height |-> e.client_height,
     body_client_height |-> w.body_client_height, inner_height |-> w.inner_height]

\* the scroll closure reads scroll_top only
ReadScrollTop(scroll_top) == [NoRead EXCEPT !.scroll_top = scroll_top]

\* a step that commands no scroll
NoCommand == [given |-> FALSE, top |-> Zero]

\* mutant: a negative top is raised to zero
ScrollTo_floored(top) ==
    [given |-> TRUE, top |-> IF Lt(top, Zero) THEN Zero ELSE top]

\* element.scroll_with_scroll_to_options(&options) with options.top = top
ScrollTo(top) == [given |-> TRUE, top |-> top]

\* mutant: the configured top offset is not added
ReadScrollY_no_offset(scroll_top) == scroll_top

\* mutant: the configured top offset is added twice
ReadScrollY_offset_twice(scroll_top) == (scroll_top + cfg.offset_top) + cfg.offset_top

\* the scroll closure's reading of the container
ReadScrollY(scroll_top) == scroll_top + cfg.offset_top

\* mutant: the resize handler re-reads the offset only
ResizeProgress_offset_only(e, w) ==
    WithScrollY(last_progress, ReadScrollY(e.scroll_top))

\* the value the resize handler stores
ResizeProgress(e, w) ==
    LET m == Measure(e, w)
    IN  ScrollProgressNew(m.scroll_y, m.scroll_height, m.viewport_height)

\* mutant: the subscribers are called last to first
Dispatch_reversed(cbs, p) ==
    [i \in 1..Len(cbs) |-> [sub |-> cbs[Len(cbs) + 1 - i], val |-> p]]

\* for callback in callbacks.borrow().iter() { callback(p) }
Dispatch(cbs, p) == [i \in 1..Len(cbs) |-> [sub |-> cbs[i], val |-> p]]

\* Option<bool>, the content of a was_in_range cell
None == "None"

\* mutant: the cell is left unknown
Some_unknown(b) == None

Some(b) == IF b THEN "Some(true)" ELSE "Some(false)"

\* history of a subscription: no run of deliveries is being followed
NoSweep ==
    [stage |-> "none", at |-> Zero, inside |-> 0, enters |-> 0, exits |-> 0,
     clean |-> TRUE]

\* history of a subscription: it forms a pair with no other subscription
Unpaired == [i \in 1..MaxSubs |-> "no"]

\* the closure a range subscription gives to on_scroll: what it was
\* registered with and its was_in_range cell (None for on_progress_range,
\* which has no cell).  History: seen tells whether the value the
\* subscription evaluated last ("none" before the first) was in range,
\* sweep follows a non-decreasing run of deliveries that began below `from`,
\* fresh holds until a value is delivered to the subscription, rang tells
\* whether registering it called the user's callback, and turn follows the
\* pairs it forms with earlier subscriptions.
RangeSub(kind, from, to, was_in_range, seen) ==
    [kind |-> kind, from |-> from, to |-> to, was_in_range |-> was_in_range,
     seen |-> seen, sweep |-> NoSweep, fresh |-> TRUE, rang |-> FALSE,
     turn |-> Unpaired]

\* history: an on_enter_range and an on_exit_range subscription on one range
Opposite(a, b) ==
    /\ {a.kind, b.kind} = {"enter", "exit"}
    /\ a.from = b.from
    /\ a.to = b.to

\* history: sub as it is registered after the subscriptions ss, its
\* registration having called the user's callback or not (rang).  turn[i]
\* follows the pair that sub forms with ss[i], an opposite subscription to
\* which no value was delivered since it was registered: which of the two
\* callbacks was called last, "none" so far, and "no" where there is no pair.
Paired(ss, sub, rang) ==
    [sub EXCEPT
        !.rang = rang,
        !.turn = [i \in 1..MaxSubs |->
                     IF i <= Len(ss) /\ Opposite(ss[i], sub) /\ ss[i].fresh
                     THEN IF rang \/ ss[i].rang THEN "enter" ELSE "none"
                     ELSE "no"]]

\* history: in range or not, as recorded in seen
Seen(progress, from, to) ==
    IF Le(from, progress.progress) /\ Le(progress.progress, to) THEN "in" ELSE "out"

\* mutant: on_enter_range calls back on every delivery inside the range
Fires_while_inside(sub, progress) ==
    LET in == is_in_range(progress, sub.from, sub.to)
    IN  CASE sub.kind = "progress" -> in
          [] sub.kind = "enter" -> in
          [] sub.kind = "exit" -> sub.was_in_range = Some(TRUE) /\ ~in

\* mutant: on_exit_range calls back on a first evaluation outside the range
Fires_exit_when_unknown(sub, progress) ==
    LET in == is_in_range(progress, sub.from, sub.to)
    IN  CASE sub.kind = "progress" -> in
          [] sub.kind = "enter" ->
                 \/ sub.was_in_range = None /\ in
                 \/ sub.was_in_range = Some(FALSE) /\ in
          [] sub.kind = "exit" -> sub.was_in_range # Some(FALSE) /\ ~in

\* whether the closure of sub, called with progress, calls the user's callback
Fires(sub, progress) ==
    LET in == is_in_range(progress, sub.from, sub.to)
    IN  CASE sub.kind = "progress" -> in
          [] sub.kind = "enter" ->
                 \/ sub.was_in_range = None /\ in
                 \/ sub.was_in_range = Some(FALSE) /\ in
          [] sub.kind = "exit" -> sub.was_in_range = Some(TRUE) /\ ~in

\* mutant: the closure does not write the cell
CellAfter_kept(sub, progress) == sub.was_in_range

\* mutant: the closure always records an evaluation inside the range
CellAfter_inside(sub, progress) ==
    IF sub.kind = "progress"
    THEN sub.was_in_range
    ELSE Some(TRUE)

\* the was_in_range cell of sub after its closure was called with progress
CellAfter(sub, progress) ==
    IF sub.kind = "progress"
    THEN sub.was_in_range
    ELSE Some(is_in_range(progress, sub.from, sub.to))

\* mutant: on_progress_range passes the progress itself as second argument
Fire_raw_progress(i, sub, progress) ==
    [sub |-> i, val |-> progress,
     range |-> IF sub.kind = "progress" THEN progress.progress ELSE Zero]

\* the call of a user's range callback: by which subscription, with which
\* value, and for on_progress_range with which second argument (else Zero)
Fire(i, sub, progress) ==
    [sub |-> i, val |-> progress,
     range |-> IF sub.kind = "progress"
               THEN in_range(progress, sub.from, sub.to)
               ELSE Zero]

RECURSIVE FiredFrom(_, _, _)
FiredFrom(ss, progress, i) ==
    IF i > Len(ss)
    THEN <<>>
    ELSE (IF Fires(ss[i], progress) THEN <<Fire(i, ss[i], progress)>> ELSE <<>>)
         \o FiredFrom(ss, progress, i + 1)

\* the user callbacks one dispatch of progress invokes, in subscription order
FiredBy(ss, progress) == FiredFrom(ss, progress, 1)

\* history: the run of deliveries sub follows once progress is delivered to
\* it.  A delivery below `from` starts a run unless it continues one that
\* started with no in-range evaluation before it (clean); a delivery not
\* smaller than the last continues the run; the run counts the calls of
\* the user's callback made by its deliveries, and its in-range deliveries
\* as none, one or several.
SweepAfter(sub, progress) ==
    LET p == progress.progress
        below == Lt(p, sub.from)
        above == Lt(sub.to, p)
        enter == IF sub.kind = "enter" /\ Fires(sub, progress) THEN 1 ELSE 0
        exit == IF sub.kind = "exit" /\ Fires(sub, progress) THEN 1 ELSE 0
        continues == sub.sweep.stage # "none" /\ Le(sub.sweep.at, p)
    IN  IF below /\ (~continues \/ ~sub.sweep.clean)
        THEN [stage |-> "below", at |-> p, inside |-> 0,
              enters |-> enter, exits |-> exit, clean |-> sub.seen # "in"]
        ELSE IF continues /\ ~(sub.sweep.stage = "below" /\ above)
             THEN [stage |-> IF below THEN "below"
                             ELSE IF above THEN "above" ELSE "within",
                   at |-> p,
                   inside |-> IF below \/ above THEN sub.sweep.inside
                              ELSE IF sub.sweep.inside = 0 THEN 1 ELSE 2,
                   enters |-> sub.sweep.enters + enter,
                   exits |-> sub.sweep.exits + exit,
                   clean |-> sub.sweep.clean]
             ELSE NoSweep

\* history: the pairs of ss[j] once progress is delivered, the callback that
\* the delivery called being the last called of its pair
TurnAfter(ss, j, progress) ==
    [i \in 1..MaxSubs |->
        IF ss[j].turn[i] = "no"
        THEN "no"
        ELSE LET enter == IF ss[j].kind = "enter" THEN ss[j] ELSE ss[i]
                 exit == IF ss[j].kind = "exit" THEN ss[j] ELSE ss[i]
             IN  IF Fires(exit, progress) THEN "exit"
                 ELSE IF Fires(enter, progress) THEN "enter"
                 ELSE ss[j].turn[i]]

\* the range subscriptions after one dispatch of progress
AfterDelivery(ss, progress) ==
    [i \in 1..Len(ss) |->
        [ss[i] EXCEPT !.was_in_range = CellAfter(ss[i], progress),
                      !.seen = Seen(progress, ss[i].from, ss[i].to),
                      !.sweep = SweepAfter(ss[i], progress),
                      !.fresh = FALSE,
                      !.turn = TurnAfter(ss, i, progress)]]

\* mutant: the window is one millisecond short
RateLimited_short(t, last_time, limit) == t - last_time < limit - 1

\* the rate-limit test of both handlers: `now - last_time < limit`
RateLimited(t, last_time, limit) == t - last_time < limit

\* mutant: a rejected event restarts the window
RejectedTime_restarted(t, last_time) == t

\* the timestamp a rejected scroll event leaves in its cell: `return` before
\* the cell is written
RejectedTime(t, last_time) == last_time

\* mutant: the timestamp cell is not written
AcceptedTime_kept(t, last_time) == last_time

\* the timestamp an accepted event leaves in its cell: `.set(now)`
AcceptedTime(t, last_time) == t

\* mutant: the deferred dispatch is scheduled for run_straight_away only
DispatchesInitial_flag_only(scroll_height, viewport_height) == cfg.run_straight_away

\* `config.run_straight_away || is_not_scrollable`
DispatchesInitial(scroll_height, viewport_height) ==
    cfg.run_straight_away \/ scroll_height <= viewport_height

\* the cells construction creates: RwSignal::new(ScrollProgress::new(0, 0, 0)),
\* Rc::new(RefCell::new(Vec)), and two Rc::new(Cell::new(0.0))
FreshCells ==
    [last_progress |-> IdleProgress, callbacks |-> <<>>,
     last_scroll_time |-> 0, last_resize_time |-> 0]

\* no tracker built: heap holds the cells by address, at[i] is the address
\* of the cells of the i-th tracker, throttle[i] its throttle_ms; step,
\* outcome and ran log the last step: what it was, what each tracker's
\* handler decided, and the subscriber invocations in order
NoTrackers ==
    [at |-> <<>>, throttle |-> <<>>, heap |-> [a \in 1..2 |-> FreshCells],
     step |-> "none", who |-> 0, outcome |-> <<>>, ran |-> <<>>]

\* the handler as setup_infinite_scroll returns it:
\* Rc::new(RefCell::new(false)) and no load spawned; loads holds, for every
\* spawned future that has not completed, the number of suspension points it
\* has reached; ev and seen log the last step and the
\* container it read
InfiniteNew ==
    [is_running |-> FALSE, loads |-> <<>>, ev |-> "none",
     seen |-> [scroll_top |-> -1, scroll_height |-> -1, offset_height |-> -1]]

\* a run that does not follow the container
NoContainer ==
    [scroll_top |-> -1, scroll_height |-> -1, client_height |-> -1,
     asked |-> [n |-> -1, d |-> 1]]

\* before construction: no listener, no closure
NoListeners == [scroll |-> FALSE, resize |-> FALSE, closure |-> "none"]

\* after construction: add_event_listener_with_callback("scroll", ..) on the
\* container, window_event_listener(resize, ..) on the window, and the
\* scroll closure kept alive by a StoredValue
Registered == [scroll |-> TRUE, resize |-> TRUE, closure |-> "stored"]

\* the scroll positions the DOM allows the container
MaxScrollTop(scroll_height, client_height) == MaxF(scroll_height - client_height, 0)

\* the container after scroll_with_scroll_to_options with options.top = top:
\* the host keeps the position inside [0, MaxScrollTop], and scroll_top()
\* reads it as an i32; asked is history, the progress the position was
\* commanded for (-1 for none)
Hosted(c, top, asked) ==
    IF c = NoContainer
    THEN c
    ELSE LET most == MaxScrollTop(c.scroll_height, c.client_height)
             kept == Clamp(top, Zero, Div(most, 1))
         IN  [c EXCEPT !.scroll_top = kept.n \div kept.d, !.asked = asked]

(***************************************************************************)
(* Intersectioner (src/src/intersection_observer.rs).                      *)
(***************************************************************************)
\* the elements of the page that may be observed
Elems == 1..MaxElems

\* usize on wasm32 is 32 bits wide: a value is held as its two 16-bit
\* halves, hi * 2^16 + lo
HalfWord == 65536

\* the usize that holds the small number n
Usize(n) == [hi |-> 0, lo |-> n]

\* an element without a data-observer-id attribute
NoId == [hi |-> -1, lo |-> -1]

\* a.wrapping_add(b), the sum modulo 2^32; `callbacks.0 += ..` adds the
\* same way where it does not overflow, and index + (index + 1 mod 2^32)
\* does not: it is 2^(k+1) - 1 for index = 2^k - 1 < usize::MAX, and
\* usize::MAX + 0 for index = usize::MAX
wrapping_add(a, b) ==
    LET lo == a.lo + b.lo
    IN  [hi |-> (a.hi + b.hi + (lo \div HalfWord)) % HalfWord, lo |-> lo % HalfWord]

\* Intersectioner::new: the counter and the map of observer_callbacks, both
\* empty.  Of the page: attr is each element's data-observer-id attribute
\* (NoId: not set) and watched the elements the IntersectionObserver
\* observes.  invoked lists the callbacks the last step called, by id.
\* History: mode is how an element was last observed, hits the number of
\* intersecting entries reported for it since, count the number of calls
\* of its callback since.
IntersectionerNew ==
    [next    |-> Usize(0),
     map     |-> <<>>,
     attr    |-> [e \in Elems |-> NoId],
     watched |-> {},
     invoked |-> <<>>,
     mode    |-> [e \in Elems |-> "none"],
     hits    |-> [e \in Elems |-> 0],
     count   |-> [e \in Elems |-> 0]]

\* the part of the state the Intersectioner does not touch
scrollVars == <<sp, infinite, container, pair, listeners, phase, cfg, now, last_progress, callbacks,
                last_scroll_time, last_resize_time, raf, ev, calls, read,
                commanded, call, subs, fired, panicked,
                scroll_accepted_at, scroll_accepted_before, resize_accepted_at>>

\* ObserverCallback.once as observe stores it
OnceFlag(once) == IF once THEN "Some(true)" ELSE "None"

\* Intersectioner::observe(element, once, callback); the attribute holds the
\* decimal text of the id, which parse::<usize> reads back as the same id
observe(element, once) ==
    /\ ~panicked
    /\ LET index == observer.next
       IN  observer' =
               [observer EXCEPT
                   !.map = [i \in DOMAIN observer.map \cup {index} |->
                               IF i = index
                               THEN [once |-> OnceFlag(once), element |-> element]
                               ELSE observer.map[i]],
                   !.attr[element] = index,
                   !.next = wrapping_add(index, wrapping_add(index, Usize(1))),
                   !.watched = observer.watched \cup {element},
                   !.invoked = <<>>,
                   !.mode[element] = IF once THEN "once" ELSE "always",
                   !.hits[element] = 0,
                   !.count[element] = 0]
    /\ UNCHANGED scrollVars

\* Intersectioner::unobserve(element)
unobserve(element) ==
    /\ ~panicked
    /\ element \in observer.watched
    /\ observer' =
           [observer EXCEPT
               !.map = [i \in DOMAIN observer.map \ {observer.attr[element]} |->
                           observer.map[i]],
               !.watched = observer.watched \ {element},
               !.invoked = <<>>,
               !.mode[element] = "none"]
    /\ UNCHANGED scrollVars

\* the closure given to the IntersectionObserver, from entry i of entries
\* on: o is the Intersectioner so far; `return` ends the closure
RECURSIVE ObserverCallbackFrom(_, _, _)
ObserverCallbackFrom(o, entries, i) ==
    IF i > Len(entries)
    THEN o
    ELSE LET entry == entries[i]
             id == o.attr[entry.target]
         IN  IF ~entry.is_intersecting
             THEN ObserverCallbackFrom(o, entries, i + 1)
             ELSE IF o.map[id].once = "Some(true)"
                  THEN o
                  ELSE ObserverCallbackFrom(
                           [o EXCEPT
                               !.map[id].once =
                                   IF o.map[id].once = "None" THEN "None" ELSE "Some(true)",
                               !.invoked = Append(@, id),
                               !.count[o.map[id].element] = @ + 1],
                           entries, i + 1)

\* the entries the browser may report in one call: one or two of the
\* observed elements, each intersecting or not
EntryLists ==
    LET entry == [target : observer.watched, is_intersecting : BOOLEAN]
    IN  {<<a>> : a \in entry}
            \cup {<<p[1], p[2]>> :
                      p \in {q \in entry \X entry : q[1].target # q[2].target}}

\* the IntersectionObserver calls the closure with entries
Intersections(entries) ==
    /\ ~panicked
    /\ \A k \in 1..Len(entries) : observer.hits[entries[k].target] < MaxHits
    /\ LET reported(e) ==
               \E k \in 1..Len(entries) :
                   entries[k].target = e /\ entries[k].is_intersecting
       IN  observer' =
               ObserverCallbackFrom(
                   [observer EXCEPT
                       !.invoked = <<>>,
                       !.hits = [e \in Elems |-> IF reported(e) THEN @[e] + 1 ELSE @[e]]],
                   entries, 1)
    /\ UNCHANGED scrollVars

Configs ==
    [throttle_ms        : ThrottleChoices,
     resize_debounce_ms : DebounceChoices,
     offset_top         : OffsetChoices,
     offset_bottom      : OffsetChoices,
     run_straight_away  : BOOLEAN]

\* the DOM keeps client_height <= scroll_height and scroll_top in range
Elements ==
    {e \in [scroll_top : Pixels, scroll_height : Pixels, client_height : Pixels] :
        /\ e.client_height <= e.scroll_height
        /\ e.scroll_top <= MaxScrollTop(e.scroll_height, e.client_height)}

\* the window: the body is as tall as the tallest container, the window as
\* tall or one less
Hosts == [body_client_height : {MaxPx}, inner_height : {MaxPx - 1, MaxPx}]

TrackerInit ==
    /\ phase = "init"
    /\ cfg \in Configs
    /\ now = 0
    /\ last_progress = IdleProgress
    /\ callbacks = <<>>
    /\ last_scroll_time = 0
    /\ last_resize_time = 0
    /\ raf = [state |-> "none", value |-> IdleProgress]
    /\ ev = "none"
    /\ calls = <<>>
    /\ read = NoRead
    /\ commanded = NoCommand
    /\ subs = <<>>
    /\ fired = <<>>
    /\ scroll_accepted_at = -1
    /\ scroll_accepted_before = -1
    /\ resize_accepted_at = -1
    /\ listeners = NoListeners
    /\ observer = IntersectionerNew
    /\ pair = NoTrackers
    /\ infinite = InfiniteNew
    /\ container = NoContainer

\* ScrollStoryteller::new
New(e, w) ==
    /\ phase = "init"
    /\ ~panicked
    /\ phase' = "live"
    /\ LET m == Measure(e, w)
           initial_progress ==
               ScrollProgressNew(m.scroll_y, m.scroll_height, m.viewport_height)
       IN  IF CalcPanics(m.scroll_y, m.scroll_height, m.viewport_height)
           THEN panicked' = TRUE /\ UNCHANGED <<last_progress, raf>>
           ELSE /\ panicked' = FALSE
                /\ last_progress' = initial_progress
                /\ raf' = IF DispatchesInitial(m.scroll_height, m.viewport_height)
                          THEN [state |-> "pending", value |-> initial_progress]
                          ELSE raf
    /\ ev' = "new"
    /\ calls' = <<>>
    /\ fired' = <<>>
    /\ subs' = subs
    /\ read' = ReadAll(e, w)
    /\ commanded' = NoCommand
    /\ call' = NoCall
    /\ listeners' = Registered
    /\ UNCHANGED <<sp, infinite, container, pair, observer, cfg, now, callbacks, last_scroll_time, last_resize_time,
                   scroll_accepted_at, scroll_accepted_before, resize_accepted_at>>

\* mutant: the task reads the stored progress when it runs
initial_progress_current == last_progress

\* the initial_progress the task of request_animation_frame captured by
\* value at construction
initial_progress == raf.value

\* the task given to request_animation_frame by construction; it runs once
AnimationFrame ==
    /\ phase = "live"
    /\ ~panicked
    /\ raf.state = "pending"
    /\ raf' = [state |-> "done", value |-> IdleProgress]
    /\ calls' = Dispatch(callbacks, initial_progress)
    /\ fired' = FiredBy(subs, initial_progress)
    /\ subs' = AfterDelivery(subs, initial_progress)
    /\ ev' = "frame"
    /\ read' = NoRead
    /\ commanded' = NoCommand
    /\ call' = NoCall
    /\ UNCHANGED <<sp, infinite, container, pair, observer, listeners, phase, cfg, now, last_progress, callbacks,
                   last_scroll_time, last_resize_time, panicked,
                   scroll_accepted_at, scroll_accepted_before, resize_accepted_at>>

\* mutant: the callback is put in front of the earlier ones
on_scroll_in_front(s) ==
    /\ phase = "live"
    /\ ~panicked
    /\ s = Len(callbacks) + 1
    /\ callbacks' = <<s>> \o callbacks
    /\ ev' = "on_scroll"
    /\ calls' = <<>>
    /\ fired' = <<>>
    /\ subs' = subs
    /\ read' = NoRead
    /\ commanded' = NoCommand
    /\ call' = NoCall
    /\ UNCHANGED <<sp, infinite, container, pair, observer, listeners, phase, cfg, now, last_progress,
                   last_scroll_time, last_resize_time, raf, panicked,
                   scroll_accepted_at, scroll_accepted_before, resize_accepted_at>>

\* ScrollStoryteller::on_scroll; a subscriber is named by its order of registration
on_scroll(s) ==
    /\ phase = "live"
    /\ ~panicked
    /\ s = Len(callbacks) + 1
    /\ callbacks' = Append(callbacks, s)
    /\ ev' = "on_scroll"
    /\ calls' = <<>>
    /\ fired' = <<>>
    /\ subs' = subs
    /\ read' = NoRead
    /\ commanded' = NoCommand
    /\ call' = NoCall
    /\ UNCHANGED <<sp, infinite, container, pair, observer, listeners, phase, cfg, now, last_progress,
                   last_scroll_time, last_resize_time, raf, panicked,
                   scroll_accepted_at, scroll_accepted_before, resize_accepted_at>>

\* the bounds given to the range subscriptions: (0.1, 0.5)
RangeChoices == {<<Div(1, 10), Half>>}

\* ScrollStoryteller::on_progress_range
on_progress_range(from, to) ==
    /\ phase = "live"
    /\ ~panicked
    /\ Len(callbacks) < MaxSubs
    /\ callbacks' = Append(callbacks, Len(callbacks) + 1)
    /\ subs' = Append(subs, Paired(subs, RangeSub("progress", from, to, None, "none"),
                                    FALSE))
    /\ fired' = <<>>
    /\ ev' = "on_progress_range"
    /\ calls' = <<>>
    /\ read' = NoRead
    /\ commanded' = NoCommand
    /\ call' = NoCall
    /\ UNCHANGED <<sp, infinite, container, pair, observer, listeners, phase, cfg, now, last_progress,
                   last_scroll_time, last_resize_time, raf, panicked,
                   scroll_accepted_at, scroll_accepted_before, resize_accepted_at>>

\* ScrollStoryteller::on_enter_range
on_enter_range(from, to) ==
    /\ phase = "live"
    /\ ~panicked
    /\ Len(callbacks) < MaxSubs
    /\ LET current_progress == last_progress
           is_currently_in_range == is_in_range(current_progress, from, to)
           was_in_range ==
               IF cfg.run_straight_away
               THEN Some(is_currently_in_range)
               ELSE None
       IN  /\ fired' = IF cfg.run_straight_away /\ is_currently_in_range
                       THEN <<[sub |-> Len(subs) + 1, val |-> current_progress,
                               range |-> Zero]>>
                       ELSE <<>>
           /\ subs' = Append(subs,
                  Paired(subs,
                         RangeSub("enter", from, to, was_in_range,
                                  IF cfg.run_straight_away
                                  THEN Seen(current_progress, from, to)
                                  ELSE "none"),
                         cfg.run_straight_away /\ is_currently_in_range))
    /\ callbacks' = Append(callbacks, Len(callbacks) + 1)
    /\ ev' = "on_enter_range"
    /\ calls' = <<>>
    /\ read' = NoRead
    /\ commanded' = NoCommand
    /\ call' = NoCall
    /\ UNCHANGED <<sp, infinite, container, pair, observer, listeners, phase, cfg, now, last_progress,
                   last_scroll_time, last_resize_time, raf, panicked,
                   scroll_accepted_at, scroll_accepted_before, resize_accepted_at>>

\* ScrollStoryteller::on_exit_range
on_exit_range(from, to) ==
    /\ phase = "live"
    /\ ~panicked
    /\ Len(callbacks) < MaxSubs
    /\ LET current_progress == last_progress
           is_currently_in_range == is_in_range(current_progress, from, to)
           was_in_range ==
               IF cfg.run_straight_away
               THEN Some(is_currently_in_range)
               ELSE None
       IN  subs' = Append(subs,
               Paired(subs,
                      RangeSub("exit", from, to, was_in_range,
                               IF cfg.run_straight_away
                               THEN Seen(current_progress, from, to)
                               ELSE "none"),
                      FALSE))
    /\ fired' = <<>>
    /\ callbacks' = Append(callbacks, Len(callbacks) + 1)
    /\ ev' = "on_exit_range"
    /\ calls' = <<>>
    /\ read' = NoRead
    /\ commanded' = NoCommand
    /\ call' = NoCall
    /\ UNCHANGED <<sp, infinite, container, pair, observer, listeners, phase, cfg, now, last_progress,
                   last_scroll_time, last_resize_time, raf, panicked,
                   scroll_accepted_at, scroll_accepted_before, resize_accepted_at>>

\* the scroll closure, run on a scroll event of the container; scroll_top,
\* one of tops, is what the closure reads of it once the event has passed
\* the throttle
ScrollEventOn(tops) ==
    /\ phase = "live"
    /\ ~panicked
    /\ IF RateLimited(now, last_scroll_time, cfg.throttle_ms)
       THEN /\ ev' = "scroll_rejected"
            /\ calls' = <<>>
            /\ fired' = <<>>
            /\ subs' = subs
            /\ read' = NoRead
            /\ commanded' = NoCommand
            /\ call' = NoCall
            /\ last_scroll_time' = RejectedTime(now, last_scroll_time)
            /\ UNCHANGED <<last_progress, panicked,
                           scroll_accepted_at, scroll_accepted_before>>
       ELSE /\ last_scroll_time' = AcceptedTime(now, last_scroll_time)
            /\ scroll_accepted_at' = now
            /\ scroll_accepted_before' = scroll_accepted_at
            /\ commanded' = NoCommand
            /\ call' = NoCall
            /\ \E scroll_top \in tops :
                   /\ read' = ReadScrollTop(scroll_top)
                   /\ LET y == ReadScrollY(scroll_top)
                      IN  IF CalcPanics(y, last_progress.scroll_height,
                                        last_progress.viewport_height)
                          THEN /\ panicked' = TRUE
                               /\ ev' = "scroll_panicked"
                               /\ calls' = <<>>
                               /\ fired' = <<>>
                               /\ subs' = subs
                               /\ UNCHANGED last_progress
                          ELSE /\ panicked' = FALSE
                               /\ last_progress' = WithScrollY(last_progress, y)
                               /\ ev' = "scroll_accepted"
                               /\ calls' = Dispatch(callbacks, last_progress')
                               /\ fired' = FiredBy(subs, last_progress')
                               /\ subs' = AfterDelivery(subs, last_progress')
    /\ UNCHANGED <<sp, infinite, container, pair, observer, listeners, phase, cfg, now, callbacks, last_resize_time, raf,
                   resize_accepted_at>>

\* a scroll event of a container whose scroll_top is one of Pixels
ScrollEvent == ScrollEventOn(Pixels)

\* mutant: the resize handler tests the scroll closure's timestamp
resize_last_time_shared == last_scroll_time

\* `let last_time = last_resize_time_clone.get()` of the resize handler
resize_last_time == last_resize_time

\* the window resize handler; e, one of elements, and w, one of hosts, are
\* the container and the window as the handler finds them once the event has
\* passed the gate
ResizeEventOn(elements, hosts) ==
    /\ phase = "live"
    /\ ~panicked
    /\ IF RateLimited(now, resize_last_time, cfg.resize_debounce_ms)
       THEN /\ ev' = "resize_rejected"
            /\ calls' = <<>>
            /\ fired' = <<>>
            /\ subs' = subs
            /\ read' = NoRead
            /\ commanded' = NoCommand
            /\ call' = NoCall
            /\ UNCHANGED <<last_resize_time, last_progress, panicked,
                           resize_accepted_at>>
       ELSE /\ last_resize_time' = AcceptedTime(now, last_resize_time)
            /\ resize_accepted_at' = now
            /\ commanded' = NoCommand
            /\ call' = NoCall
            /\ \E e \in elements, w \in hosts :
                   /\ read' = ReadAll(e, w)
                   /\ LET m == Measure(e, w)
                      IN  IF CalcPanics(m.scroll_y, m.scroll_height, m.viewport_height)
                          THEN /\ panicked' = TRUE
                               /\ ev' = "resize_panicked"
                               /\ calls' = <<>>
                               /\ fired' = <<>>
                               /\ subs' = subs
                               /\ UNCHANGED last_progress
                          ELSE /\ panicked' = FALSE
                               /\ last_progress' = ResizeProgress(e, w)
                               /\ ev' = "resize_accepted"
                               /\ calls' = Dispatch(callbacks, last_progress')
                               /\ fired' = FiredBy(subs, last_progress')
                               /\ subs' = AfterDelivery(subs, last_progress')
    /\ UNCHANGED <<sp, infinite, container, pair, observer, listeners, phase, cfg, now, callbacks, last_scroll_time, raf,
                   scroll_accepted_at, scroll_accepted_before>>

\* a resize event with any container and any window
ResizeEvent == ResizeEventOn(Elements, Hosts)

\* mutant: the argument is used as given
clamped_unclamped(progress) == progress

\* `progress.clamp(0.0, 1.0)` of scroll_to_progress
clamped(progress) == Clamp(progress, Zero, One)

\* ScrollStoryteller::scroll_to_progress (smooth_scroll only picks the
\* behaviour of the container's scrolling)
scroll_to_progress(progress) ==
    /\ phase = "live"
    /\ ~panicked
    /\ LET clamped_progress == clamped(progress)
           current == last_progress
           m == MaxF(current.scroll_height - current.viewport_height, 0)
           target_scroll == ScaleMinus(clamped_progress, m, cfg.offset_top)
       IN  commanded' = ScrollTo(target_scroll)
    /\ call' = Called("scroll_to_progress", <<progress>>, Zero)
    /\ ev' = "scroll_to_progress"
    /\ calls' = <<>>
    /\ fired' = <<>>
    /\ subs' = subs
    /\ read' = NoRead
    /\ container' = Hosted(container, commanded'.top, clamped(progress))
    /\ UNCHANGED <<sp, infinite, pair, observer, listeners, phase, cfg, now, last_progress, callbacks,
                   last_scroll_time, last_resize_time, raf, panicked,
                   scroll_accepted_at, scroll_accepted_before, resize_accepted_at>>

\* ScrollStoryteller::scroll_to_pixels
scroll_to_pixels(pixels) ==
    /\ phase = "live"
    /\ ~panicked
    /\ commanded' = ScrollTo(Div(pixels, 1))
    /\ call' = Called("scroll_to_pixels", <<Div(pixels, 1)>>, Zero)
    /\ ev' = "scroll_to_pixels"
    /\ calls' = <<>>
    /\ fired' = <<>>
    /\ subs' = subs
    /\ read' = NoRead
    /\ container' = Hosted(container, commanded'.top, NoContainer.asked)
    /\ UNCHANGED <<sp, infinite, pair, observer, listeners, phase, cfg, now, last_progress, callbacks,
                   last_scroll_time, last_resize_time, raf, panicked,
                   scroll_accepted_at, scroll_accepted_before, resize_accepted_at>>

\* the monotonic clock advances
Tick ==
    /\ now < MaxTime
    /\ now' = now + 1
    /\ ev' = "tick"
    /\ calls' = <<>>
    /\ fired' = <<>>
    /\ subs' = subs
    /\ read' = NoRead
    /\ commanded' = NoCommand
    /\ call' = NoCall
    /\ UNCHANGED <<sp, infinite, container, pair, observer, listeners, phase, cfg, last_progress, callbacks,
                   last_scroll_time, last_resize_time, raf, panicked,
                   scroll_accepted_at, scroll_accepted_before, resize_accepted_at>>

(***************************************************************************)
(* Construction without a host, and teardown.                              *)
(***************************************************************************)
\* what of the host a construction finds: there is no document without a
\* window, and neither a body nor a document element without a document
Contexts ==
    {c \in [window : BOOLEAN, document : BOOLEAN, document_element : BOOLEAN,
            body : BOOLEAN, performance : BOOLEAN] :
        /\ c.document => c.window
        /\ c.performance => c.window
        /\ c.document_element => c.document
        /\ c.body => c.document}

\* window().unwrap(), document().unwrap().body().unwrap() and
\* performance().unwrap() all return
Unwraps(c) == c.window /\ c.document /\ c.body /\ c.performance

\* a construction that ends before it has registered or built anything:
\* outcome is "new_panicked" for a failed unwrap, "for_window_err" for an
\* Err returned by `?`
ConstructionEnds(fn, c, outcome) ==
    /\ phase = "init"
    /\ ~panicked
    /\ panicked' = (outcome = "new_panicked")
    /\ ev' = outcome
    /\ call' = Called(fn, <<c>>, Zero)
    /\ calls' = <<>>
    /\ fired' = <<>>
    /\ subs' = subs
    /\ read' = NoRead
    /\ commanded' = NoCommand
    /\ UNCHANGED <<sp, infinite, container, pair, observer, listeners, phase, cfg, now, last_progress, callbacks,
                   last_scroll_time, last_resize_time, raf,
                   scroll_accepted_at, scroll_accepted_before, resize_accepted_at>>

\* ScrollStoryteller::new in the host c: the unwraps come before the
\* listeners are attached
new(c, e, w) ==
    IF Unwraps(c) THEN New(e, w) ELSE ConstructionEnds("new", c, "new_panicked")

\* ScrollStoryteller::for_window in the host c: `?` returns the Err of a
\* missing window, document or document element, then it calls new
for_window(c, e, w) ==
    IF ~c.window \/ ~c.document \/ ~c.document_element
    THEN ConstructionEnds("for_window", c, "for_window_err")
    ELSE IF Unwraps(c)
         THEN New(e, w)
         ELSE ConstructionEnds("for_window", c, "new_panicked")

\* the owning scope is cleaned up: on_cleanup removes the handle of the
\* resize listener, and the StoredValue drops the scroll closure; nothing
\* calls remove_event_listener for the scroll listener
Cleanup ==
    /\ phase = "live"
    /\ ~panicked
    /\ phase' = "disposed"
    /\ listeners' = [scroll |-> listeners.scroll, resize |-> FALSE, closure |-> "dropped"]
    /\ ev' = "cleanup"
    /\ calls' = <<>>
    /\ fired' = <<>>
    /\ subs' = subs
    /\ read' = NoRead
    /\ commanded' = NoCommand
    /\ call' = NoCall
    /\ UNCHANGED <<sp, infinite, container, pair, observer, cfg, now, last_progress, callbacks,
                   last_scroll_time, last_resize_time, raf, panicked,
                   scroll_accepted_at, scroll_accepted_before, resize_accepted_at>>

\* a scroll or resize event after the cleanup: a listener still attached is
\* called, and the call of a dropped closure throws before the closure's
\* body; an event nothing listens to passes unheard
EventAfterCleanup(kind) ==
    /\ phase = "disposed"
    /\ ~panicked
    /\ ev' = IF listeners[kind]
             THEN IF kind = "scroll" /\ listeners.closure = "dropped"
                  THEN "scroll_threw"
                  ELSE "handler_ran"
             ELSE "unheard"
    /\ calls' = <<>>
    /\ fired' = <<>>
    /\ subs' = subs
    /\ read' = NoRead
    /\ commanded' = NoCommand
    /\ call' = NoCall
    /\ UNCHANGED <<sp, infinite, container, pair, observer, listeners, phase, cfg, now, last_progress, callbacks,
                   last_scroll_time, last_resize_time, raf, panicked,
                   scroll_accepted_at, scroll_accepted_before, resize_accepted_at>>

(***************************************************************************)
(* Several trackers on one container.                                      *)
(***************************************************************************)
\* the throttle_ms of the trackers built on the shared container
PairThrottles == {1, 3}

\* the shared container: scroll height 1000, visible height 200, in a window
\* of height 800 whose body is as tall as the container's content
PairTops == {0, 800}

\* the subscribers each of these trackers is given
PairSubs == 1

PairContainer(scroll_top) ==
    [scroll_top |-> scroll_top, scroll_height |-> 1000, client_height |-> 200]

PairWindow == [body_client_height |-> 1000, inner_height |-> 800]

\* all of the state but pair
soloVars == <<sp, infinite, container, listeners, observer, phase, cfg, now, last_progress, callbacks,
              last_scroll_time, last_resize_time, raf, ev, calls, read, commanded,
              call, subs, fired,
              panicked, scroll_accepted_at, scroll_accepted_before,
              resize_accepted_at>>

\* the log of a step that starts
Started(p, step, who) ==
    [p EXCEPT !.step = step, !.who = who, !.ran = <<>>,
              !.outcome = [i \in 1..Len(p.at) |-> "none"]]

\* mutant: every construction uses the same cells
RcNew_static(built) == 1

\* Rc::new and RwSignal::new in the construction after `built` earlier
\* ones: cells at an address no earlier tracker holds
RcNew(built) == built + 1

\* ScrollStoryteller::new on the shared container, scrolled to scroll_top
new_on_shared(throttle_ms, scroll_top) ==
    /\ Len(pair.at) < 2
    /\ LET a == RcNew(Len(pair.at))
           m == Measure(PairContainer(scroll_top), PairWindow)
           built == [pair EXCEPT
                        !.at = Append(@, a),
                        !.throttle = Append(@, throttle_ms),
                        !.heap[a] =
                            [FreshCells EXCEPT !.last_progress =
                                ScrollProgressNew(m.scroll_y, m.scroll_height,
                                                  m.viewport_height)]]
       IN  pair' = Started(built, "new", Len(built.at))
    /\ UNCHANGED soloVars

\* on_scroll of the i-th tracker, with a subscriber of that tracker
on_scroll_of(i) ==
    /\ i \in 1..Len(pair.at)
    /\ Len(pair.heap[pair.at[i]].callbacks) < PairSubs
    /\ pair' = [Started(pair, "on_scroll", i) EXCEPT
                   !.heap[pair.at[i]].callbacks =
                       Append(@, [owner |-> i, id |-> Len(@) + 1])]
    /\ UNCHANGED soloVars

\* the invocations of one dispatch by the i-th tracker
Ran(i, cbs, p) == [k \in 1..Len(cbs) |-> [tracker |-> i, sub |-> cbs[k], val |-> p]]

\* the scroll closure of the i-th tracker
ScrollClosure(p, i, scroll_top) ==
    LET a == p.at[i]
        c == p.heap[a]
    IN  IF RateLimited(now, c.last_scroll_time, p.throttle[i])
        THEN [p EXCEPT !.outcome[i] = "rejected"]
        ELSE LET new_progress == WithScrollY(c.last_progress, ReadScrollY(scroll_top))
             IN  [p EXCEPT !.heap[a].last_scroll_time = AcceptedTime(now, @),
                           !.heap[a].last_progress = new_progress,
                           !.outcome[i] = "accepted",
                           !.ran = @ \o Ran(i, c.callbacks, new_progress)]

\* the resize handler of the i-th tracker
ResizeHandler(p, i, scroll_top) ==
    LET a == p.at[i]
        c == p.heap[a]
    IN  IF RateLimited(now, c.last_resize_time, cfg.resize_debounce_ms)
        THEN [p EXCEPT !.outcome[i] = "rejected"]
        ELSE LET new_progress ==
                     ResizeProgress(PairContainer(scroll_top), PairWindow)
             IN  [p EXCEPT !.heap[a].last_resize_time = AcceptedTime(now, @),
                           !.heap[a].last_progress = new_progress,
                           !.outcome[i] = "accepted",
                           !.ran = @ \o Ran(i, c.callbacks, new_progress)]

\* the listeners of the trackers i.., called in the order of registration
RECURSIVE ListenersFrom(_, _, _, _)
ListenersFrom(p, i, kind, scroll_top) ==
    IF i > Len(p.at)
    THEN p
    ELSE ListenersFrom(IF kind = "scroll"
                       THEN ScrollClosure(p, i, scroll_top)
                       ELSE ResizeHandler(p, i, scroll_top),
                       i + 1, kind, scroll_top)

\* one scroll event of the shared container, or one resize event of the
\* window: every tracker's listener for it is called
NativeEvent(kind, scroll_top) ==
    /\ Len(pair.at) > 0
    /\ pair' = ListenersFrom(Started(pair, kind, 0), 1, kind, scroll_top)
    /\ UNCHANGED soloVars

(***************************************************************************)
(* setup_infinite_scroll (src/src/infinite_scroll.rs).                     *)
(***************************************************************************)
\* the containers a scroll event comes from: offset_height is the visible
\* height with its borders, so it may exceed scroll_height by the borders
\* where the content fits, and scroll_top ends two border widths past
\* scroll_height - offset_height
InfiniteElements ==
    {e \in [scroll_top : {0, 11, 12, 13, 14}, scroll_height : {20, 22, 30},
            offset_height : {7, 22}] :
        e.scroll_top <= MaxF((e.scroll_height - e.offset_height) + 2, 0)}

\* (element_height as f32 * 0.1) as i32: the cast truncates toward zero
Tenth(element_height) == Sign(element_height) * (Abs(element_height) \div 10)

\* mutant: the threshold is the whole scrollable height
threshold_height_whole(e) == e.scroll_height - e.offset_height

\* let threshold_height = element_height - (element_height as f32 * 0.1) as i32
threshold_height(e) ==
    LET element_height == e.scroll_height - e.offset_height
    IN  element_height - Tenth(element_height)

\* mutant: the flag is not read
AlreadyLoading_never(h) == FALSE

\* `if *is_running.borrow() { return; }`
AlreadyLoading(h) == h.is_running

\* the closure setup_infinite_scroll returns, called with a scroll event of e
InfiniteScrollEvent(e) ==
    /\ infinite' =
           IF AlreadyLoading(infinite)
           THEN [infinite EXCEPT !.ev = "ignored", !.seen = e]
           ELSE IF e.scroll_top >= threshold_height(e)
                THEN [infinite EXCEPT !.is_running = TRUE,
                                      !.loads = Append(@, 0),
                                      !.ev = "started", !.seen = e]
                ELSE [infinite EXCEPT !.ev = "below", !.seen = e]
    /\ UNCHANGED <<sp, panicked, call, container, pair, observer, listeners, phase, cfg, now,
                   last_progress, callbacks, last_scroll_time, last_resize_time, raf,
                   ev, calls, read, commanded, subs, fired,
                   scroll_accepted_at, scroll_accepted_before, resize_accepted_at>>

\* the executor polls the i-th spawned future, and on_scroll_end(event)
\* runs to its next suspension point
LoadSuspends(i) ==
    /\ i \in 1..Len(infinite.loads)
    /\ infinite.loads[i] < MaxAwaits
    /\ infinite' = [infinite EXCEPT !.loads[i] = @ + 1, !.ev = "suspended"]
    /\ UNCHANGED <<sp, panicked, call, container, pair, observer, listeners, phase, cfg, now,
                   last_progress, callbacks, last_scroll_time, last_resize_time, raf,
                   ev, calls, read, commanded, subs, fired,
                   scroll_accepted_at, scroll_accepted_before, resize_accepted_at>>

\* the executor polls the i-th spawned future, on_scroll_end(event)
\* finishes, and the future resets the flag
LoadCompletes(i) ==
    /\ i \in 1..Len(infinite.loads)
    /\ infinite' =
           [infinite EXCEPT
               !.is_running = FALSE,
               !.loads = SubSeq(@, 1, i - 1) \o SubSeq(@, i + 1, Len(@)),
               !.ev = "completed"]
    /\ UNCHANGED <<sp, panicked, call, container, pair, observer, listeners, phase, cfg, now,
                   last_progress, callbacks, last_scroll_time, last_resize_time, raf,
                   ev, calls, read, commanded, subs, fired,
                   scroll_accepted_at, scroll_accepted_before, resize_accepted_at>>

(***************************************************************************)
(* Registration from inside a subscriber.                                  *)
(***************************************************************************)
\* RefCell::borrow_mut panics while a Ref of the cell is alive
BorrowMutPanics(refs) == refs > 0

\* the loop `for callback in callbacks.borrow().iter() { callback(p) }`
\* from the i-th subscriber on, where the callback of the subscriber
\* `registrar` calls on_scroll(added): the Ref taken by borrow() lives as
\* long as the loop, and on_scroll takes callbacks.borrow_mut()
RECURSIVE DispatchFrom(_, _, _, _, _)
DispatchFrom(cbs, p, i, registrar, added) ==
    IF i > Len(cbs)
    THEN [calls |-> <<>>, panicked |-> FALSE, pushed |-> <<>>]
    ELSE LET here == <<[sub |-> cbs[i], val |-> p]>>
         IN  IF cbs[i] = registrar /\ BorrowMutPanics(1)
             THEN [calls |-> here, panicked |-> TRUE, pushed |-> <<>>]
             ELSE LET rest == DispatchFrom(cbs, p, i + 1, registrar, added)
                  IN  [calls    |-> here \o rest.calls,
                       panicked |-> rest.panicked,
                       pushed   |-> IF cbs[i] = registrar
                                    THEN <<added>> \o rest.pushed
                                    ELSE rest.pushed]

\* an accepted scroll event of a container at scroll_top, where the callback
\* of the subscriber registrar registers the subscriber added
ScrollEventRegistering(registrar, added, scroll_top) ==
    /\ phase = "live"
    /\ ~panicked
    /\ ~RateLimited(now, last_scroll_time, cfg.throttle_ms)
    /\ \E k \in 1..Len(callbacks) : callbacks[k] = registrar
    /\ last_scroll_time' = AcceptedTime(now, last_scroll_time)
    /\ scroll_accepted_at' = now
    /\ scroll_accepted_before' = scroll_accepted_at
    /\ commanded' = NoCommand
    /\ call' = Called("on_scroll", <<added>>, Zero)
    /\ read' = ReadScrollTop(scroll_top)
    /\ last_progress' = WithScrollY(last_progress, ReadScrollY(scroll_top))
    /\ LET loop == DispatchFrom(callbacks, last_progress', 1, registrar, added)
       IN  /\ calls' = loop.calls
           /\ panicked' = loop.panicked
           /\ callbacks' = callbacks \o loop.pushed
    /\ ev' = "scroll_registering"
    /\ fired' = <<>>
    /\ subs' = subs
    /\ UNCHANGED <<sp, infinite, container, pair, observer, listeners, phase, cfg, now,
                   last_resize_time, raf, resize_accepted_at>>

(***************************************************************************)
(* The tracker with the container it tracks.                               *)
(***************************************************************************)
\* arguments of scroll_to_progress inside [0, 1]
RoundTargets == {Zero, Div(1, 3), Div(1, 2), One}

\* the window of the followed container
RoundWindow == [body_client_height |-> 1000, inner_height |-> 800]

\* the heights the followed container is resized between, before the offsets
RoundHeights == {200, 400}

\* the user scrolls the followed container to top, or resizes it to a
\* visible height of client_height and scrolls it there
Moved(top, client_height) ==
    /\ container # NoContainer
    /\ top <= MaxScrollTop(container.scroll_height, client_height)
    /\ container' = [container EXCEPT !.scroll_top = top,
                                      !.client_height = client_height,
                                      !.asked = NoContainer.asked]
    /\ ev' = "moved"
    /\ calls' = <<>>
    /\ fired' = <<>>
    /\ subs' = subs
    /\ read' = NoRead
    /\ commanded' = NoCommand
    /\ call' = NoCall
    /\ UNCHANGED <<sp, infinite, pair, observer, listeners, phase, cfg, now, last_progress,
                   callbacks, last_scroll_time, last_resize_time, raf, panicked,
                   scroll_accepted_at, scroll_accepted_before, resize_accepted_at>>

(***************************************************************************)
(* Responses (src/src/net.rs).                                             *)
(***************************************************************************)
\* the texts a response body is drawn from: blank, white space, the empty
\* object, an object with a field `a`, an array, null, and a broken text
Bodies == {"", " ", "{}", "{\"a\":1}", "[]", "null", "{"}

\* the types a response is read as: a struct without required fields and a
\* struct with the required field `a`
TargetTypes == {"NoFields", "FieldA"}

\* the values of the auth-token cookie
Cookies == {"None", "Some()", "Some(t)", "Some(u)"}

\* Result: the error or the value, as a tuple
Err(e) == [ok |-> FALSE, value |-> <<e>>]

Ok(v) == [ok |-> TRUE, value |-> v]

\* serde_json::from_str into an Intermediate
from_str(text) ==
    CASE text = "{}" -> Ok(<<"Map{}">>)
      [] text = "{\"a\":1}" -> Ok(<<"Map{a}">>)
      [] text = "[]" -> Ok(<<"Array">>)
      [] text = "null" -> Ok(<<"None">>)
      [] text \in {"", " "} -> Err("EOF while parsing a value")
      [] OTHER -> Err("EOF while parsing an object")

\* Deserialize::deserialize of a derived struct: a map with the required fields
deserialize(T, json_value) ==
    CASE json_value = <<"Map{a}">> -> Ok(<<T, "a">>)
      [] json_value = <<"Map{}">> ->
             IF T = "NoFields" THEN Ok(<<T>>) ELSE Err("missing field a")
      [] OTHER -> Err("invalid value type")

\* JsonLiteDeserialize::json_lite::<T> on a response whose body is text
json_lite(text, T) ==
    LET json_value == from_str(text)
    IN  IF ~json_value.ok THEN json_value ELSE deserialize(T, json_value.value)

\* Result::ok
OkOption(result) == IF result.ok THEN <<"Some", result.value>> ELSE <<"None">>

\* NetResponsive::authenticate: the Authorization header
authenticate(cookie) ==
    <<"Bearer ", CASE cookie = "Some(t)" -> "t"
                   [] cookie = "Some(u)" -> "u"
                   [] OTHER -> "">>

\* response.json_lite::<T>()
JsonLite(text, T) ==
    /\ ~panicked
    /\ call' = Called("json_lite", <<text, T>>, json_lite(text, T))
    /\ UNCHANGED <<sp, panicked, trackerVars>>

\* NetResponsive::get_response::<T>: sent is the outcome of send(), an
\* error or the body of the response
get_response(cookie, sent, T) ==
    /\ ~panicked
    /\ call' = Called("get_response", <<authenticate(cookie), sent, T>>,
                      IF ~sent.ok
                      THEN sent
                      ELSE Ok(OkOption(json_lite(sent.value[1], T))))
    /\ UNCHANGED <<sp, panicked, trackerVars>>

\* NetResponsive::post_json::<T, B>: serialized tells whether the body
\* could be serialized
post_json(cookie, serialized, sent, T) ==
    /\ ~panicked
    /\ call' = Called("post_json", <<authenticate(cookie), sent, T, serialized>>,
                      IF ~serialized
                      THEN Err("serialize")
                      ELSE IF ~sent.ok
                           THEN sent
                           ELSE Ok(OkOption(json_lite(sent.value[1], T))))
    /\ UNCHANGED <<sp, panicked, trackerVars>>

\* what send() may give
Sent == {Err("send")} \cup {Ok(<<text>>) : text \in Bodies}

(***************************************************************************)
(* Specifications.                                                         *)
(***************************************************************************)
Init ==
    /\ sp = IdleProgress
    /\ panicked = FALSE
    /\ call = NoCall
    /\ TrackerInit

Next ==
    \/ \E e \in Elements, w \in Hosts : New(e, w)
    \/ AnimationFrame
    \/ \E s \in SubIds : on_scroll(s)
    \/ ScrollEvent
    \/ ResizeEvent
    \/ \E progress \in ProgressTargets : scroll_to_progress(progress)
    \/ \E pixels \in PixelTargets : scroll_to_pixels(pixels)
    \/ Tick

Spec == Init /\ [][Next]_vars

\* the pure function alone, on every input the tracker can pass it
PureInit ==
    /\ sp = IdleProgress
    /\ panicked = FALSE
    /\ call = NoCall
    /\ TrackerInit
    /\ cfg = [throttle_ms |-> 2, resize_debounce_ms |-> 3, offset_top |-> 0,
              offset_bottom |-> 0, run_straight_away |-> FALSE]

PureNext ==
    \/ \E y \in PureOffsets, h \in PureExtents, v \in PureViewports : SPNew(y, h, v)
    \/ \E y \in PureOffsets : SPSetScrollY(y)

PureSpec == PureInit /\ [][PureNext]_vars

\* the range subscriptions, on a tracker that was constructed without
\* throttle and offsets on a container of scroll height 20 and client height
\* 0, whose scroll positions give progress 0.05, 0.1, 0.3, 0.5, 0.6 and 1
RangeContainer == [scroll_height |-> 20, client_height |-> 0]

RangeTops == {1, 2, 6, 10, 12, 20}

RangeInit ==
    /\ sp = IdleProgress
    /\ panicked = FALSE
    /\ call = NoCall
    /\ phase = "live"
    /\ cfg \in [throttle_ms        : {0},
                resize_debounce_ms : {0},
                offset_top         : {0},
                offset_bottom      : {0},
                run_straight_away  : BOOLEAN]
    /\ now = 0
    /\ \E scroll_top \in RangeTops :
           last_progress =
               ScrollProgressNew(scroll_top + cfg.offset_top,
                                 RangeContainer.scroll_height,
                                 RangeContainer.client_height
                                     - cfg.offset_top - cfg.offset_bottom)
    /\ raf = IF DispatchesInitial(last_progress.scroll_height,
                                  last_progress.viewport_height)
             THEN [state |-> "pending", value |-> last_progress]
             ELSE [state |-> "none", value |-> IdleProgress]
    /\ callbacks = <<>>
    /\ last_scroll_time = 0
    /\ last_resize_time = 0
    /\ ev = "new"
    /\ calls = <<>>
    /\ read = NoRead
    /\ commanded = NoCommand
    /\ subs = <<>>
    /\ fired = <<>>
    /\ scroll_accepted_at = -1
    /\ scroll_accepted_before = -1
    /\ resize_accepted_at = -1
    /\ listeners = Registered
    /\ observer = IntersectionerNew
    /\ pair = NoTrackers
    /\ infinite = InfiniteNew
    /\ container = NoContainer

RangeNext ==
    \/ \E r \in RangeChoices : on_progress_range(r[1], r[2])
    \/ \E r \in RangeChoices : on_enter_range(r[1], r[2])
    \/ \E r \in RangeChoices : on_exit_range(r[1], r[2])
    \/ ScrollEventOn(RangeTops)
    \/ AnimationFrame

RangeSpec == RangeInit /\ [][RangeNext]_vars

\* the functions of one ScrollProgress value, on the progress values k / ValueSteps
\* the programmatic scrolls, on a tracker that was constructed without
\* run_straight_away on a container of scroll height 1000 whose visible
\* height less the offsets is 200, scrolled to the top, the middle or the end
CommandTops == {0, 400, 800}

CommandInit ==
    /\ sp = IdleProgress
    /\ panicked = FALSE
    /\ call = NoCall
    /\ phase = "live"
    /\ cfg \in {c \in Configs : ~c.run_straight_away}
    /\ now = 0
    /\ \E scroll_top \in CommandTops :
           last_progress =
               ScrollProgressNew(scroll_top + cfg.offset_top, 1000,
                                 (200 + cfg.offset_top + cfg.offset_bottom)
                                     - cfg.offset_top - cfg.offset_bottom)
    /\ raf = [state |-> "none", value |-> IdleProgress]
    /\ callbacks = <<>>
    /\ last_scroll_time = 0
    /\ last_resize_time = 0
    /\ ev = "new"
    /\ calls = <<>>
    /\ read = NoRead
    /\ commanded = NoCommand
    /\ subs = <<>>
    /\ fired = <<>>
    /\ scroll_accepted_at = -1
    /\ scroll_accepted_before = -1
    /\ resize_accepted_at = -1
    /\ listeners = Registered
    /\ observer = IntersectionerNew
    /\ pair = NoTrackers
    /\ infinite = InfiniteNew
    /\ container = NoContainer

CommandNext ==
    \/ \E progress \in ProgressTargets : scroll_to_progress(progress)
    \/ \E pixels \in PixelTargets : scroll_to_pixels(pixels)
    \/ ScrollEventOn(Pixels \cup CommandTops)
    \/ ResizeEvent
    \/ Tick

CommandSpec == CommandInit /\ [][CommandNext]_vars

\* the reading of responses alone
NetInit ==
    /\ sp = IdleProgress
    /\ panicked = FALSE
    /\ call = NoCall
    /\ TrackerInit
    /\ cfg = [throttle_ms |-> 2, resize_debounce_ms |-> 3, offset_top |-> 0,
              offset_bottom |-> 0, run_straight_away |-> FALSE]

NetNext ==
    \/ \E text \in Bodies, T \in TargetTypes : JsonLite(text, T)
    \/ \E cookie \in Cookies, sent \in Sent, T \in TargetTypes :
           get_response(cookie, sent, T)
    \/ \E cookie \in Cookies, serialized \in BOOLEAN, sent \in Sent, T \in TargetTypes :
           post_json(cookie, serialized, sent, T)

NetSpec == NetInit /\ [][NetNext]_vars

\* the Intersectioner alone, for its first MaxElems observe calls
ObserverInit ==
    /\ sp = IdleProgress
    /\ panicked = FALSE
    /\ call = NoCall
    /\ TrackerInit
    /\ cfg = [throttle_ms |-> 2, resize_debounce_ms |-> 3, offset_top |-> 0,
              offset_bottom |-> 0, run_straight_away |-> FALSE]

ObserverNext ==
    \/ \E element \in Elems, once \in BOOLEAN :
           /\ observer.next.hi = 0
           /\ observer.next.lo < 2^MaxElems - 1
           /\ observe(element, once)
    \/ \E element \in Elems : unobserve(element)
    \/ \E entries \in EntryLists : Intersections(entries)

ObserverSpec == ObserverInit /\ [][ObserverNext]_vars

\* a tracker from its construction, in any host, to its teardown
LifeInit ==
    /\ sp = IdleProgress
    /\ panicked = FALSE
    /\ call = NoCall
    /\ TrackerInit
    /\ cfg = [throttle_ms |-> 2, resize_debounce_ms |-> 3, offset_top |-> 0,
              offset_bottom |-> 0, run_straight_away |-> TRUE]

LifeNext ==
    \/ \E c \in Contexts, e \in Elements, w \in Hosts : new(c, e, w)
    \/ \E c \in Contexts, e \in Elements, w \in Hosts : for_window(c, e, w)
    \/ AnimationFrame
    \/ \E s \in SubIds : on_scroll(s)
    \/ ScrollEvent
    \/ ResizeEvent
    \/ Cleanup
    \/ \E kind \in {"scroll", "resize"} : EventAfterCleanup(kind)
    \/ Tick

LifeSpec == LifeInit /\ [][LifeNext]_vars

\* two trackers on one container, each with its own throttle
PairInit ==
    /\ sp = IdleProgress
    /\ panicked = FALSE
    /\ call = NoCall
    /\ TrackerInit
    /\ cfg = [throttle_ms |-> 2, resize_debounce_ms |-> 3, offset_top |-> 0,
              offset_bottom |-> 0, run_straight_away |-> FALSE]

PairNext ==
    \/ \E throttle_ms \in PairThrottles, scroll_top \in PairTops :
           new_on_shared(throttle_ms, scroll_top)
    \/ \E i \in 1..2 : on_scroll_of(i)
    \/ \E kind \in {"scroll", "resize"}, scroll_top \in PairTops :
           NativeEvent(kind, scroll_top)
    \/ Tick

PairSpec == PairInit /\ [][PairNext]_vars

\* the infinite-scroll handler and the load it spawns
InfiniteInit ==
    /\ sp = IdleProgress
    /\ panicked = FALSE
    /\ call = NoCall
    /\ TrackerInit
    /\ cfg = [throttle_ms |-> 2, resize_debounce_ms |-> 3, offset_top |-> 0,
              offset_bottom |-> 0, run_straight_away |-> FALSE]

InfiniteNext ==
    \/ \E e \in InfiniteElements : InfiniteScrollEvent(e)
    \/ \E i \in 1..2 : LoadSuspends(i)
    \/ \E i \in 1..2 : LoadCompletes(i)

InfiniteSpec == InfiniteInit /\ [][InfiniteNext]_vars

\* subscribers that register subscribers, on the tracker of the
\* programmatic scrolls
ReentrantNext ==
    \/ \E s \in SubIds : on_scroll(s)
    \/ ScrollEventOn(CommandTops)
    \/ \E registrar \in SubIds, added \in SubIds, scroll_top \in CommandTops :
           ScrollEventRegistering(registrar, added, scroll_top)
    \/ Tick

ReentrantSpec == CommandInit /\ [][ReentrantNext]_vars

\* a tracker constructed without run_straight_away on a container of scroll
\* height 1000 whose visible height less the offsets is 200, with one
\* subscriber, and the container followed from then on
RoundInit ==
    /\ sp = IdleProgress
    /\ panicked = FALSE
    /\ call = NoCall
    /\ phase = "live"
    /\ cfg \in {c \in Configs : ~c.run_straight_away}
    /\ now = 0
    /\ \E scroll_top \in CommandTops :
           /\ container = [scroll_top |-> scroll_top, scroll_height |-> 1000,
                           client_height |-> 200 + cfg.offset_top + cfg.offset_bottom,
                           asked |-> NoContainer.asked]
           /\ LET m == Measure(container, RoundWindow)
              IN  last_progress =
                      ScrollProgressNew(m.scroll_y, m.scroll_height, m.viewport_height)
    /\ raf = [state |-> "none", value |-> IdleProgress]
    /\ callbacks = <<1>>
    /\ last_scroll_time = 0
    /\ last_resize_time = 0
    /\ ev = "new"
    /\ calls = <<>>
    /\ read = NoRead
    /\ commanded = NoCommand
    /\ subs = <<>>
    /\ fired = <<>>
    /\ scroll_accepted_at = -1
    /\ scroll_accepted_before = -1
    /\ resize_accepted_at = -1
    /\ listeners = Registered
    /\ observer = IntersectionerNew
    /\ pair = NoTrackers
    /\ infinite = InfiniteNew

RoundNext ==
    \/ \E progress \in RoundTargets : scroll_to_progress(progress)
    \/ \E pixels \in PixelTargets : scroll_to_pixels(pixels)
    \/ \E top \in CommandTops, client_height \in RoundHeights :
           Moved(top, client_height + cfg.offset_top + cfg.offset_bottom)
    \/ ScrollEventOn({container.scroll_top})
    \/ ResizeEventOn({container}, {RoundWindow})
    \/ Tick

RoundSpec == RoundInit /\ [][RoundNext]_vars

\* the Intersectioner of a page that observes the elements it does not
\* observe yet and stops observing others, for as long as it likes
CounterNext ==
    \/ \E element \in Elems :
           /\ element \notin observer.watched
           /\ observe(element, FALSE)
    \/ \E element \in Elems : unobserve(element)

CounterSpec == ObserverInit /\ [][CounterNext]_vars

ValueInit ==
    /\ PureInit
    /\ sp = ScrollProgressNew(0, 0, 0)

ValueNext ==
    \/ \E y \in 0..ValueSteps : SPNew(y, ValueSteps, 0)
    \/ \E y \in 0..ValueSteps : SPSetScrollY(y)
    \/ \E easing \in EasingFunction : Eased(easing)
    \/ \E from \in RangePoints, to \in RangePoints : InRange(from, to)
    \/ \E from \in RangePoints, to \in RangePoints : IsInRange(from, to)

ValueSpec == ValueInit /\ [][ValueNext]_vars

(***************************************************************************)
(* Properties of the progress computation (checked under PureSpec).        *)
(***************************************************************************)
RatMin(p, q) == IF Le(p, q) THEN p ELSE q

RatMax(p, q) == IF Le(p, q) THEN q ELSE p

C2_FittingContentIsComplete ==
    sp.scroll_height <= sp.viewport_height => sp.progress = One

C2_Witness ==
    /\ sp.scroll_height = 200
    /\ sp.viewport_height = 200
    /\ sp.scroll_y = 400
    /\ sp.progress = One

C4_StoredProgressIsDerived ==
    last_progress.progress =
        calculate_progress(last_progress.scroll_y, last_progress.scroll_height,
                           last_progress.viewport_height)

C4_Witness ==
    /\ ev = "scroll_accepted"
    /\ Lt(last_progress.progress, One)
    /\ Lt(Div(last_progress.viewport_height, last_progress.scroll_height),
          last_progress.progress)

ScrollHandlerRan == ev' \in {"scroll_accepted", "scroll_rejected", "scroll_panicked"}

ResizeHandlerRan == ev' \in {"resize_accepted", "resize_rejected", "resize_panicked"}

\* what a dispatch of value p to the subscribers cbs is: one call each, in order
DeliveredToAll(cs, cbs, p) ==
    /\ Len(cs) = Len(cbs)
    /\ \A i \in 1..Len(cbs) : cs[i].sub = cbs[i] /\ cs[i].val = p

\* C5: a scroll event D after the last accepted scroll event is rejected when
\* D < throttle_ms (stored progress kept, no subscriber invoked) and accepted
\* when D >= throttle_ms (progress recomputed and dispatched to all subscribers).
C5_ThrottleDecidesOnElapsed ==
    [][(ScrollHandlerRan /\ scroll_accepted_at >= 0) =>
           IF now - scroll_accepted_at < cfg.throttle_ms
           THEN /\ ev' = "scroll_rejected"
                /\ last_progress' = last_progress
                /\ calls' = <<>>
           ELSE /\ ev' = "scroll_accepted"
                /\ scroll_accepted_at' = now
                /\ last_progress'.progress =
                       calculate_progress(last_progress'.scroll_y,
                                          last_progress.scroll_height,
                                          last_progress.viewport_height)
                /\ DeliveredToAll(calls', callbacks, last_progress')]_vars

C5_Witness ==
    /\ ev = "scroll_rejected"
    /\ scroll_accepted_at >= 0
    /\ now > scroll_accepted_at
    /\ Len(callbacks) > 0

\* C6: two scroll-channel dispatches are never less than throttle_ms apart
\* (the clock never runs backwards, so it is enough that consecutive ones are).
C6_ScrollDispatchesSpaced ==
    /\ scroll_accepted_at <= now
    /\ scroll_accepted_before >= 0 =>
           scroll_accepted_at - scroll_accepted_before >= cfg.throttle_ms

C6_Witness ==
    /\ ev = "scroll_accepted"
    /\ scroll_accepted_before >= 0
    /\ Len(calls) > 0

\* C7: a resize event less than resize_debounce_ms after the last accepted
\* resize event is dropped and leaves nothing scheduled; an accepted resize
\* event stores the progress of the container's current scroll offset, scroll
\* extent and viewport extent and invokes all subscribers; subscribers are
\* invoked by accepted events and the construction-time frame only.
C7_ResizeIsLeadingEdgeGate ==
    [][/\ (ResizeHandlerRan /\ resize_accepted_at >= 0
                            /\ now - resize_accepted_at < cfg.resize_debounce_ms) =>
              /\ ev' = "resize_rejected"
              /\ calls' = <<>>
              /\ UNCHANGED <<last_progress, raf, resize_accepted_at>>
       /\ ev' = "resize_accepted" =>
              /\ last_progress'.scroll_y = read'.scroll_top + cfg.offset_top
              /\ last_progress'.scroll_height = read'.scroll_height
              /\ last_progress'.viewport_height \in
                     {read'.client_height - cfg.offset_top - cfg.offset_bottom,
                      read'.inner_height}
              /\ last_progress'.progress =
                     calculate_progress(last_progress'.scroll_y,
                                        last_progress'.scroll_height,
                                        last_progress'.viewport_height)
              /\ DeliveredToAll(calls', callbacks, last_progress')
       /\ calls' # <<>> => ev' \in {"scroll_accepted", "resize_accepted", "frame"}]_vars

C7_Witness ==
    /\ ev = "resize_rejected"
    /\ resize_accepted_at >= 0
    /\ now > resize_accepted_at
    /\ Len(callbacks) > 0
    /\ last_progress.scroll_height > last_progress.viewport_height

\* C8: an accepted scroll event stores scroll_top + offset_top as scroll_y and
\* keeps the stored scroll_height and viewport_height, whatever the
\* container's extents are by then.
C8_ScrollKeepsExtents ==
    [][ev' = "scroll_accepted" =>
           /\ last_progress'.scroll_y = read'.scroll_top + cfg.offset_top
           /\ last_progress'.scroll_height = last_progress.scroll_height
           /\ last_progress'.viewport_height = last_progress.viewport_height]_vars

\* the stored offset lies beyond the stored scroll extent: the container has
\* grown since its extents were recorded
C8_Witness ==
    /\ ev = "scroll_accepted"
    /\ cfg.offset_top > 0
    /\ last_progress.scroll_y - cfg.offset_top > last_progress.scroll_height

\* C9: an accepted scroll or resize event invokes every registered
\* subscriber exactly once, in subscription order, each with the value the
\* event stored as current progress.
C9_DispatchInOrderSameValue ==
    ev \in {"scroll_accepted", "resize_accepted"} =>
        /\ Len(calls) = Len(callbacks)
        /\ \A i \in 1..Len(callbacks) :
               /\ calls[i].sub = callbacks[i]
               /\ calls[i].val = last_progress
        /\ \A i \in 1..Len(callbacks), j \in 1..Len(callbacks) :
               calls[i].sub = calls[j].sub => i = j

C9_Witness ==
    /\ ev \in {"scroll_accepted", "resize_accepted"}
    /\ Len(calls) >= 2
    /\ calls[1].sub # calls[2].sub

\* C10: construction stores the initial progress and invokes no subscriber;
\* it schedules one deferred dispatch exactly when run_straight_away is set
\* or the content is not scrollable; that dispatch runs once and gives the
\* initial progress to every subscriber registered by then; without it no
\* synthetic delivery ever happens.
C10_InitialDispatchDeferred ==
    [][/\ ev' = "new" =>
              /\ calls' = <<>>
              /\ last_progress'.scroll_y = read'.scroll_top + cfg.offset_top
              /\ last_progress'.scroll_height = read'.scroll_height
              /\ last_progress'.viewport_height \in
                     {read'.client_height - cfg.offset_top - cfg.offset_bottom,
                      read'.inner_height}
              /\ last_progress'.progress =
                     calculate_progress(last_progress'.scroll_y,
                                        last_progress'.scroll_height,
                                        last_progress'.viewport_height)
              /\ raf'.state = "pending" <=>
                     (\/ cfg.run_straight_away
                      \/ last_progress'.scroll_height <= last_progress'.viewport_height)
              /\ raf'.state = "pending" => raf'.value = last_progress'
              /\ raf'.state # "pending" => raf'.state = "none"
       /\ ev' = "frame" =>
              /\ raf.state = "pending"
              /\ raf'.state = "done"
              /\ DeliveredToAll(calls', callbacks, raf.value)
       /\ ev' # "new" =>
              /\ raf.state = "none" => raf'.state = "none"
              /\ raf.state = "done" => raf'.state = "done" /\ ev' # "frame"
              /\ raf.state = "pending" =>
                     \/ raf' = raf
                     \/ ev' = "frame"]_vars

C10_Witness ==
    /\ ev = "frame"
    /\ ~cfg.run_straight_away
    /\ Len(calls) >= 2
    /\ calls[1].val.scroll_height <= calls[1].val.viewport_height
    /\ calls[1].val # last_progress

(***************************************************************************)
(* Properties of the functions of a ScrollProgress value (checked under    *)
(* ValueSpec).                                                             *)
(***************************************************************************)
\* C16: for from < to, in_range(from, to) is 0 when progress <= from, 1 when
\* progress >= to and (progress - from) / (to - from) in between;
\* is_in_range(from, to) is true exactly when from <= progress <= to.
C16_InRangeIsLinearBetweenBounds ==
    /\ (call.fn = "in_range" /\ Lt(call.args[1], call.args[2])) =>
           LET from == call.args[1]
               to == call.args[2]
           IN  /\ Le(sp.progress, from) => call.value = Zero
               /\ Le(to, sp.progress) => call.value = One
               /\ (Lt(from, sp.progress) /\ Lt(sp.progress, to)) =>
                      Mul(call.value, Sub(to, from)) = Sub(sp.progress, from)
    /\ call.fn = "is_in_range" =>
           /\ call.value \in {Zero, One}
           /\ call.value = One <=>
                  (Le(call.args[1], sp.progress) /\ Le(sp.progress, call.args[2]))

C16_Witness ==
    /\ call.fn = "in_range"
    /\ call.args = <<Div(1, 4), One>>
    /\ sp.progress = Half
    /\ call.value = Div(1, 3)

\* C17: each of the seven easing kinds gives 0 at progress 0 and 1 at
\* progress 1.
C17_EasingFixesEndpoints ==
    call.fn = "eased" =>
        /\ sp.progress = Zero => call.value = Zero
        /\ sp.progress = One => call.value = One

C17_Witness ==
    /\ call.fn = "eased"
    /\ call.args[1] = "EaseOutCubic"
    /\ sp.progress = Zero
    /\ sp.scroll_height > 0
    /\ call.value = Zero

\* C18: for each of the seven easing kinds and every progress in [0, 1] the
\* eased value lies in [0, 1] and does not decrease when progress grows; at
\* progress 0.5 both halves of EaseInOut and of EaseInOutCubic give 0.5.
C18_EasingBoundedAndMonotone ==
    (call.fn = "eased" /\ Le(Zero, sp.progress) /\ Le(sp.progress, One)) =>
        /\ Le(Zero, call.value)
        /\ Le(call.value, One)
        /\ \A y \in 0..ValueSteps :
               LET later == WithScrollY(sp, y)
               IN  Le(sp.progress, later.progress) =>
                       Le(call.value, eased(later, call.args[1]))
        /\ (sp.progress = Half /\ call.args[1] = "EaseInOut") =>
               /\ call.value = Half
               /\ Mul(Mul(Two, sp.progress), sp.progress) = Half
        /\ (sp.progress = Half /\ call.args[1] = "EaseInOutCubic") =>
               /\ call.value = Half
               /\ Mul(Mul(Mul(Four, sp.progress), sp.progress), sp.progress) = Half

C18_Witness ==
    /\ call.fn = "eased"
    /\ call.args[1] = "EaseInOutCubic"
    /\ sp.progress = Half
    /\ call.value = Half

\* ---------------------------------------------------------------------
\* Properties of the range subscriptions
\* ---------------------------------------------------------------------

\* the steps that deliver a progress value to the subscribers
DispatchEvents == {"scroll_accepted", "resize_accepted", "frame"}

\* the user callbacks of range subscription i that the last step invoked
FiredOf(i) == {k \in 1..Len(fired) : fired[k].sub = i}

\* C11: the callback of on_progress_range(from, to, cb) is invoked on a
\* delivered value p if and only if from <= p.progress <= to, once for that
\* delivery, with p and (p.progress - from) / (to - from), whatever the
\* subscription evaluated before; with range (0.1, 0.5) a delivery of 0.05
\* does not call cb and a delivery of 0.3 calls it with range value 0.5.
C11_ProgressRangeFiresOnEveryInsideDelivery ==
    ev \in DispatchEvents =>
        \A i \in 1..Len(subs) :
            subs[i].kind = "progress" =>
                LET p == calls[1].val
                    from == subs[i].from
                    to == subs[i].to
                IN  /\ FiredOf(i) # {} <=> (Le(from, p.progress) /\ Le(p.progress, to))
                    /\ Cardinality(FiredOf(i)) <= 1
                    /\ \A k \in FiredOf(i) :
                           /\ fired[k].val = p
                           /\ fired[k].range = Quot(Sub(p.progress, from), Sub(to, from))
                    /\ (from = Div(1, 10) /\ to = Div(1, 2) /\ p.progress = Div(1, 20))
                           => FiredOf(i) = {}
                    /\ (from = Div(1, 10) /\ to = Div(1, 2) /\ p.progress = Div(3, 10))
                           => \E k \in FiredOf(i) : fired[k].range = Div(1, 2)

\* a delivery of 0.3 calls the callback of on_progress_range(0.1, 0.5) with
\* range value 0.5 although the delivery before it was inside the range
\* too: the on_enter_range subscription registered after it, on a tracker
\* without run_straight_away, has been evaluated in range and stays silent
C11_Witness ==
    /\ ev = "scroll_accepted"
    /\ ~cfg.run_straight_away
    /\ Len(subs) = 2
    /\ subs[1].kind = "progress"
    /\ subs[2].kind = "enter"
    /\ calls[1].val.progress = Div(3, 10)
    /\ Len(fired) = 1
    /\ fired[1].sub = 1
    /\ fired[1].range = Div(1, 2)

\* the user callbacks of range subscription i that the step invokes
FiredNextOf(i) == {k \in 1..Len(fired') : fired'[k].sub = i}

\* C12: on a delivered value the callback of on_enter_range(from, to, cb) is
\* invoked, once and with that value, exactly when the value is in range
\* and the subscription's previous evaluation was out of range or there was
\* none; it is not invoked when the previous evaluation was in range.
C12_EnterFiresOnTransitionIntoRange ==
    [][ev' \in DispatchEvents =>
           \A i \in 1..Len(subs) :
               subs[i].kind = "enter" =>
                   LET p == calls'[1].val
                       inside == Le(subs[i].from, p.progress) /\ Le(p.progress, subs[i].to)
                   IN  /\ FiredNextOf(i) # {} <=> (inside /\ subs[i].seen \in {"out", "none"})
                       /\ subs[i].seen = "in" => FiredNextOf(i) = {}
                       /\ Cardinality(FiredNextOf(i)) <= 1
                       /\ \A k \in FiredNextOf(i) : fired'[k].val = p]_vars

\* an on_enter_range callback was invoked by an in-range delivery that
\* followed a delivery below the range
C12_Witness ==
    /\ ev = "scroll_accepted"
    /\ \E i \in 1..Len(subs) :
           /\ subs[i].kind = "enter"
           /\ FiredOf(i) # {}
           /\ subs[i].sweep.stage = "within"
           /\ subs[i].sweep.enters = 1

\* C13: with run_straight_away, on_enter_range evaluates the stored progress
\* during the subscription: it invokes the callback once with that value if
\* it is in range, and leaves the subscription's state in-range or
\* out-of-range accordingly, never unknown; without run_straight_away the
\* subscription invokes nothing and the state starts unknown.
C13_EnterSubscriptionSeedsState ==
    [][ev' = "on_enter_range" =>
           LET i == Len(subs')
               inside == Le(subs'[i].from, last_progress.progress)
                             /\ Le(last_progress.progress, subs'[i].to)
           IN  /\ i = Len(subs) + 1
               /\ subs'[i].kind = "enter"
               /\ calls' = <<>>
               /\ last_progress' = last_progress
               /\ IF cfg.run_straight_away
                  THEN /\ fired' = IF inside
                                   THEN <<[sub |-> i, val |-> last_progress, range |-> Zero]>>
                                   ELSE <<>>
                       /\ subs'[i].was_in_range = IF inside THEN "Some(true)" ELSE "Some(false)"
                  ELSE /\ fired' = <<>>
                       /\ subs'[i].was_in_range = "None"]_vars

\* a subscription with run_straight_away at a stored progress inside the
\* range has invoked the callback and is seeded in-range
C13_Witness ==
    /\ ev = "on_enter_range"
    /\ cfg.run_straight_away
    /\ Len(fired) = 1
    /\ fired[1].sub = Len(subs)
    /\ fired[1].val = last_progress
    /\ subs[Len(subs)].was_in_range = "Some(true)"

\* C14: on a delivered value the callback of on_exit_range(from, to, cb) is
\* invoked, once and with that value, exactly when the value is out of range
\* and the subscription's previous evaluation was in range; it is not
\* invoked by the subscription itself, which with run_straight_away only
\* seeds the state from the stored progress, nor by the first evaluation
\* of a subscription whose state is unknown.
C14_ExitFiresOnTransitionOutOfRange ==
    [][/\ ev' \in DispatchEvents =>
           \A i \in 1..Len(subs) :
               subs[i].kind = "exit" =>
                   LET p == calls'[1].val
                       inside == Le(subs[i].from, p.progress) /\ Le(p.progress, subs[i].to)
                   IN  /\ FiredNextOf(i) # {} <=> (~inside /\ subs[i].seen = "in")
                       /\ subs[i].seen = "none" => FiredNextOf(i) = {}
                       /\ Cardinality(FiredNextOf(i)) <= 1
                       /\ \A k \in FiredNextOf(i) : fired'[k].val = p
       /\ ev' = "on_exit_range" =>
           LET i == Len(subs')
               inside == Le(subs'[i].from, last_progress.progress)
                             /\ Le(last_progress.progress, subs'[i].to)
           IN  /\ fired' = <<>>
               /\ calls' = <<>>
               /\ subs'[i].kind = "exit"
               /\ subs'[i].was_in_range =
                      IF cfg.run_straight_away
                      THEN IF inside THEN "Some(true)" ELSE "Some(false)"
                      ELSE "None"]_vars

\* an on_exit_range callback was invoked by a delivery above the range that
\* followed a delivery inside it
C14_Witness ==
    /\ ev = "scroll_accepted"
    /\ \E i \in 1..Len(subs) :
           /\ subs[i].kind = "exit"
           /\ FiredOf(i) # {}
           /\ subs[i].sweep.stage = "above"
           /\ subs[i].sweep.exits = 1

\* the subscriptions that have been through a run of deliveries which began
\* below `from`, never decreased, had an in-range delivery and has reached a
\* value above `to`
Swept == {i \in 1..Len(subs) : subs[i].sweep.stage = "above"}

\* the callback of subscription i was invoked exactly once by the
\* deliveries of its run
FiredOnceInSweep(i) ==
    /\ subs[i].kind = "enter" => subs[i].sweep.enters = 1
    /\ subs[i].kind = "exit" => subs[i].sweep.exits = 1

C19_ScrollToProgressCommandsClampedOffset ==
    ev = "scroll_to_progress" =>
        LET p == call.args[1]
            scrollable ==
                IF last_progress.scroll_height - last_progress.viewport_height > 0
                THEN last_progress.scroll_height - last_progress.viewport_height
                ELSE 0
            at(q) == Sub(Mul(q, Div(scrollable, 1)), Div(cfg.offset_top, 1))
        IN  /\ commanded.given
            /\ commanded.top = at(RatMax(Zero, RatMin(One, p)))
            /\ (/\ p = Div(1, 2)
                /\ last_progress.scroll_height = 1000
                /\ last_progress.viewport_height = 200)
                   => commanded.top = Div(400 - cfg.offset_top, 1)
            /\ p = Div(2, 1) => commanded.top = at(One)
            /\ p = Div(-1, 1) => commanded.top = at(Zero)

\* scroll_to_progress(2) on extents (1000, 200) with a top offset of 1 has
\* commanded 799
C19_Witness ==
    /\ ev = "scroll_to_progress"
    /\ call.args[1] = Div(2, 1)
    /\ last_progress.scroll_height = 1000
    /\ last_progress.viewport_height = 200
    /\ cfg.offset_top = 1
    /\ commanded = [given |-> TRUE, top |-> Div(799, 1)]

\* a step of scroll_to_progress or scroll_to_pixels leaves the stored
\* progress, the subscriber list and both timestamps as they were, invokes
\* no subscriber, and scroll_to_pixels(x) commands x itself
CommandLeavesTrackerAlone ==
    ev' \in {"scroll_to_progress", "scroll_to_pixels"} =>
        /\ last_progress' = last_progress
        /\ callbacks' = callbacks
        /\ last_scroll_time' = last_scroll_time
        /\ last_resize_time' = last_resize_time
        /\ calls' = <<>>
        /\ commanded'.given
        /\ ev' = "scroll_to_pixels" => commanded'.top = call'.args[1]

\* C20 as stated: scroll_to_progress and scroll_to_pixels leave the stored
\* progress, the subscriber list and both timestamps unchanged and invoke
\* no subscriber, scroll_to_pixels(x) commands exactly x, and after such a
\* call the stored progress changes only when a scroll event is accepted
\* (stated of the step that follows the call).
C20_ProgressChangesOnScrollEventsOnly ==
    [][/\ CommandLeavesTrackerAlone
       /\ (/\ ev \in {"scroll_to_progress", "scroll_to_pixels"}
           /\ last_progress' # last_progress)
              => ev' = "scroll_accepted"]_vars

\* C20: scroll_to_progress and scroll_to_pixels leave the stored progress,
\* the subscriber list and both timestamps unchanged and invoke no
\* subscriber, scroll_to_pixels(x) commands exactly x, and the stored
\* progress of the constructed tracker changes only when a scroll event or
\* a resize event is accepted by its channel.
C20_CommandsLeaveProgressToEvents ==
    [][/\ CommandLeavesTrackerAlone
       /\ (phase = "live" /\ last_progress' # last_progress)
              => ev' \in {"scroll_accepted", "resize_accepted"}]_vars

\* scroll_to_pixels(-1) on a tracker with two subscribers and an accepted
\* scroll event behind it has commanded -1 and called nobody
C20_Witness ==
    /\ ev = "scroll_to_pixels"
    /\ Len(callbacks) = 2
    /\ scroll_accepted_at >= 0
    /\ call.args = <<Div(-1, 1)>>
    /\ commanded = [given |-> TRUE, top |-> Div(-1, 1)]
    /\ calls = <<>>

\* ---------------------------------------------------------------------
\* Totality of the progress computation
\* ---------------------------------------------------------------------

\* C23: calculate_progress completes for every triple of inputs, zero
\* extents and a negative viewport_height or scroll_height included: no
\* call fails, and when the clamp is evaluated its lower bound
\* viewport_height / scroll_height is not above its upper bound 1.0.
C23_CalculateProgressIsTotal ==
    /\ ~panicked
    /\ max_scroll(sp.scroll_height, sp.viewport_height) > 0
           => Le(Div(sp.viewport_height, sp.scroll_height), One)

\* ---------------------------------------------------------------------
\* Measurement of the viewport extent
\* ---------------------------------------------------------------------

\* C25: construction and every accepted resize event record
\* client_height - offset_top - offset_bottom as viewport extent, except
\* that when the container's client_height equals the body's client_height,
\* whatever the offsets, they record the window's inner height; both
\* record the same ScrollProgress for the same measurements.
C25_ViewportIsWindowHeightForBodySizedContainer ==
    (ev \in {"new", "resize_accepted"} /\ ~panicked) =>
        LET viewport_extent ==
                IF read.client_height = read.body_client_height
                THEN read.inner_height
                ELSE read.client_height - cfg.offset_top - cfg.offset_bottom
        IN  last_progress =
                ScrollProgressNew(read.scroll_top + cfg.offset_top,
                                  read.scroll_height, viewport_extent)

\* ---------------------------------------------------------------------
\* Properties of the subscriber list and of the two rate limits
\* ---------------------------------------------------------------------

\* C26: on_scroll appends the callback to the end of the subscriber list
\* and leaves every earlier subscriber where it was, whether events have
\* been accepted before or not; an accepted event invokes exactly the
\* subscribers registered before it, so a new one is invoked by every later
\* accepted event and by no earlier one; no step shortens or reorders the
\* list.
C26_OnScrollAppends ==
    [][/\ ev' = "on_scroll" =>
              /\ Len(callbacks') = Len(callbacks) + 1
              /\ calls' = <<>>
              /\ UNCHANGED <<last_progress, last_scroll_time, last_resize_time>>
       /\ Len(callbacks') >= Len(callbacks)
       /\ \A i \in 1..Len(callbacks) : callbacks'[i] = callbacks[i]
       /\ ev' \in {"scroll_accepted", "resize_accepted"} =>
              /\ callbacks' = callbacks
              /\ {calls'[k].sub : k \in 1..Len(calls')}
                     = {callbacks[i] : i \in 1..Len(callbacks)}
              /\ Len(calls') = Len(callbacks)]_vars

\* a second subscriber has been registered after a scroll event was accepted
C26_Witness ==
    /\ ev = "on_scroll"
    /\ callbacks = <<1, 2>>
    /\ scroll_accepted_at >= 0

\* C29: a rejected scroll event leaves the last-accepted timestamp, the
\* stored progress and the subscriber list as they were and invokes no
\* subscriber; the window runs from the last accepted event, not from the
\* last one that arrived, so whatever events were rejected since, a scroll
\* event that arrives throttle_ms or more after the last accepted one is
\* accepted.
C29_RejectedScrollChangesNothing ==
    [][ScrollHandlerRan =>
           /\ ev' = "scroll_rejected" =>
                  /\ UNCHANGED <<last_scroll_time, last_progress, callbacks>>
                  /\ calls' = <<>>
           /\ (scroll_accepted_at >= 0 /\ now - scroll_accepted_at >= cfg.throttle_ms) =>
                  /\ ev' = "scroll_accepted"
                  /\ last_scroll_time' = now
           /\ last_scroll_time = IF scroll_accepted_at >= 0 THEN scroll_accepted_at ELSE 0]_vars

\* a scroll event was rejected one millisecond before the window since the
\* last accepted one closes, on a tracker with a subscriber
C29_Witness ==
    /\ ev = "scroll_rejected"
    /\ scroll_accepted_at >= 0
    /\ now - scroll_accepted_at = cfg.throttle_ms - 1
    /\ last_scroll_time = scroll_accepted_at
    /\ Len(callbacks) > 0

\* whether a handler whose last accepted event was at accepted_at (-1: none
\* yet, the cell holds 0.0) lets an event at time t through
Passes(t, accepted_at, limit) ==
    t - (IF accepted_at >= 0 THEN accepted_at ELSE 0) >= limit

\* C30: the two channels keep separate rate-limit state: a scroll event,
\* accepted or rejected, leaves the resize timestamp as it was and a resize
\* event leaves the scroll timestamp as it was; whether an event is let
\* through depends on the time since the last accepted event of its own
\* channel only; an accepted event of either channel writes the stored
\* progress and gives it to every subscriber of the one list.
C30_ChannelsHaveSeparateRateLimits ==
    [][/\ ScrollHandlerRan =>
              /\ UNCHANGED <<last_resize_time, resize_accepted_at>>
              /\ ev' = "scroll_rejected"
                     <=> ~Passes(now, scroll_accepted_at, cfg.throttle_ms)
       /\ ResizeHandlerRan =>
              /\ UNCHANGED <<last_scroll_time, scroll_accepted_at>>
              /\ ev' = "resize_rejected"
                     <=> ~Passes(now, resize_accepted_at, cfg.resize_debounce_ms)
       /\ ev' \in {"scroll_accepted", "resize_accepted"} =>
              DeliveredToAll(calls', callbacks, last_progress')]_vars

\* a resize event has been accepted inside the throttle window of the last
\* accepted scroll event
C30_Witness ==
    /\ ev = "resize_accepted"
    /\ scroll_accepted_at >= 0
    /\ now - scroll_accepted_at < cfg.throttle_ms
    /\ last_scroll_time = scroll_accepted_at
    /\ last_resize_time = now
    /\ Len(callbacks) > 0

\* ---------------------------------------------------------------------
\* Properties of the Intersectioner
\* ---------------------------------------------------------------------

\* C27: the callback of an element observed with once = true is invoked
\* exactly once, on the first intersecting entry reported for the element,
\* and not again on later intersecting entries.
C27_OnceCallbackFiresOnFirstIntersection ==
    \A e \in Elems :
        observer.mode[e] = "once" =>
            observer.count[e] = IF observer.hits[e] >= 1 THEN 1 ELSE 0

\* ---------------------------------------------------------------------
\* Properties of the reading of responses
\* ---------------------------------------------------------------------

\* C28: json_lite reads a blank body as the text "{}", so a blank body gives
\* no parse error; post_json and get_response on a blank body return the
\* deserialization of "{}" and not None when T deserializes from an empty
\* object.
C28_BlankBodyReadsAsEmptyObject ==
    /\ (call.fn = "json_lite" /\ call.args[1] = "") =>
           call.value = deserialize(call.args[2], <<"Map{}">>)
    /\ (/\ call.fn \in {"get_response", "post_json"}
        /\ call.args[2] = Ok(<<"">>)
        /\ call.args[3] = "NoFields"
        /\ call.fn = "post_json" => call.args[4]) =>
           call.value = Ok(<<"Some", <<"NoFields">>>>)

\* C22: a construction through new or for_window in a host without a
\* window, a document, a body or a performance clock returns an Err and
\* does not abort, and it leaves no listener registered and no tracker
\* constructed.
C22_ConstructionWithoutHostReturnsErr ==
    (call.fn \in {"new", "for_window"} /\ ~Unwraps(call.args[1])) =>
        /\ ev = "for_window_err"
        /\ ~panicked
        /\ listeners = NoListeners
        /\ phase = "init"

\* C21: once the tracker is torn down, its scroll listener and its resize
\* listener are both deregistered, and no scroll or resize event after the
\* teardown runs a handler of the tracker or calls a subscriber.
C21_TeardownDeregistersBothListeners ==
    phase = "disposed" =>
        /\ ~listeners.scroll
        /\ ~listeners.resize
        /\ ev \notin {"handler_ran", "scroll_accepted", "scroll_rejected",
                      "resize_accepted", "resize_rejected"}
        /\ calls = <<>>
        /\ fired = <<>>

\* the cells of the i-th tracker of the pair
CellsOf(p, i) == p.heap[p.at[i]]

\* the invocations a step made of subscribers registered on the i-th tracker
RanFor(p, i) == SelectSeq(p.ran, LAMBDA r : r.sub.owner = i)

\* the invocations a step's handler of the i-th tracker made
RanBy(p, i) == SelectSeq(p.ran, LAMBDA r : r.tracker = i)

\* C24: two trackers on one container are independent. A subscription added
\* to one leaves the other's cells as they were; of one native event each
\* tracker decides by its own timestamp and its own limit; a tracker that
\* rejects the event keeps its stored progress, its timestamps and its
\* subscriber list, and none of its subscribers is called, whatever the other
\* tracker decides; a tracker that accepts calls its own subscribers and no
\* others.
C24_TrackersOnOneContainerAreIndependent ==
    [][(Len(pair.at) = 2 /\ Len(pair'.at) = 2 /\ now' = now) =>
        \A i \in 1..2 :
            LET mine  == CellsOf(pair, i)
                after == CellsOf(pair', i)
                last_time == IF pair'.step = "scroll" THEN mine.last_scroll_time
                             ELSE mine.last_resize_time
                limit == IF pair'.step = "scroll" THEN pair.throttle[i]
                         ELSE cfg.resize_debounce_ms
            IN  /\ (pair'.step = "on_scroll" /\ pair'.who # i) =>
                       /\ after = mine
                       /\ pair'.ran = <<>>
                /\ pair'.step \in {"scroll", "resize"} =>
                       /\ pair'.outcome[i] =
                              IF RateLimited(now, last_time, limit)
                              THEN "rejected" ELSE "accepted"
                       /\ pair'.outcome[i] = "rejected" =>
                              /\ after = mine
                              /\ RanFor(pair', i) = <<>>
                       /\ pair'.outcome[i] = "accepted" =>
                              /\ after.callbacks = mine.callbacks
                              /\ RanBy(pair', i) =
                                     Ran(i, mine.callbacks, after.last_progress)
                              /\ RanFor(pair', i) = RanBy(pair', i)
    ]_vars

\* one scroll event that the first tracker accepted and the second, with the
\* longer throttle, rejected after it had accepted an earlier one: only the
\* first tracker's subscriber was called
C24_Witness ==
    /\ Len(pair.at) = 2
    /\ pair.step = "scroll"
    /\ pair.outcome = <<"accepted", "rejected">>
    /\ pair.throttle = <<1, 3>>
    /\ CellsOf(pair, 1).last_scroll_time = now
    /\ CellsOf(pair, 2).last_scroll_time \in 1..(now - 1)
    /\ Len(CellsOf(pair, 2).callbacks) = 1
    /\ Len(pair.ran) = 1
    /\ pair.ran[1].sub.owner = 1

\* the step called the handler of setup_infinite_scroll (a call that leaves
\* flag, loads and log as they were is a step that changes nothing)
HandlerRan ==
    /\ infinite'.ev \in {"ignored", "started", "below"}
    /\ infinite' # infinite

\* C31: at most one on_scroll_end load is in flight at any time, and a scroll
\* event that arrives while a load is in flight, at whichever suspension
\* point the load is, is ignored: it starts nothing and changes nothing.
C31_AtMostOneLoadInFlight ==
    [][/\ Len(infinite'.loads) <= 1
       /\ (infinite.loads # <<>> /\ HandlerRan) =>
              /\ infinite'.ev = "ignored"
              /\ infinite'.loads = infinite.loads
              /\ infinite'.is_running = infinite.is_running
    ]_vars

\* a scroll event past the threshold was ignored while the load was at its
\* last suspension point
C31_Witness ==
    /\ infinite.ev = "ignored"
    /\ infinite.loads = <<MaxAwaits>>
    /\ infinite.seen.scroll_top >= threshold_height(infinite.seen)

\* C32: is_running is true exactly while a spawned load has not completed.
\* A scroll event with scroll_top at or past 90% of scroll_height -
\* offset_height that finds the flag clear sets it and starts a load, the
\* completion of the load clears it, and a scroll event below the threshold
\* starts no load and leaves the flag as it was.
C32_FlagTracksTheLoad ==
    [][/\ infinite'.is_running <=> infinite'.loads # <<>>
       /\ infinite'.ev = "completed" => ~infinite'.is_running
       /\ HandlerRan =>
              LET e == infinite'.seen
                  past == 10 * e.scroll_top >= 9 * (e.scroll_height - e.offset_height)
              IN  /\ (past /\ ~infinite.is_running) =>
                         /\ infinite'.ev = "started"
                         /\ infinite'.is_running
                         /\ infinite'.loads = <<0>>
                  /\ ~past =>
                         /\ infinite'.ev \in {"below", "ignored"}
                         /\ infinite'.loads = infinite.loads
                         /\ infinite'.is_running = infinite.is_running
    ]_vars

\* a load was started by an event exactly at the threshold
C32_Witness ==
    /\ infinite.ev = "started"
    /\ infinite.is_running
    /\ infinite.seen = [scroll_top |-> 12, scroll_height |-> 20, offset_height |-> 7]

\* C33: every value delivered to a subscriber, by a scroll event, a resize
\* event or the deferred dispatch of construction, is the tracker's stored
\* progress at the moment of the delivery.
C33_DeliveredValueIsStoredProgress ==
    \A i \in 1..Len(calls) : calls[i].val = last_progress

\* C33 amended: a scroll or resize event delivers the progress it has just
\* stored; the deferred dispatch delivers the initial progress that
\* construction computed and stored, whatever has been stored since.
C33_EventsDeliverStoredFrameDeliversInitial ==
    [][/\ ev' \in {"scroll_accepted", "resize_accepted"} =>
              \A i \in 1..Len(calls') : calls'[i].val = last_progress'
       /\ ev' = "new" =>
              (raf'.state = "pending" => raf'.value = last_progress')
       /\ (ev' # "new" /\ raf.state = "pending" /\ raf'.state = "pending") =>
              raf'.value = raf.value
       /\ ev' = "frame" =>
              /\ Len(calls') = Len(callbacks)
              /\ \A i \in 1..Len(calls') : calls'[i].val = raf.value
    ]_vars

\* the deferred dispatch delivered the initial progress after an accepted
\* event had stored another
C33_Witness ==
    /\ ev = "frame"
    /\ calls # <<>>
    /\ calls[1].val # last_progress

\* C34: the first scroll event after construction, and the first resize
\* event, are accepted whatever the clock reads: an event is rejected only
\* when an event of its kind was accepted before it.
C34_FirstEventIsAccepted ==
    /\ ev = "scroll_rejected" => scroll_accepted_at # -1
    /\ ev = "resize_rejected" => resize_accepted_at # -1

\* C35: a subscriber registered from inside a subscriber callback, while a
\* dispatch iterates the subscriber list, is registered without failure, and
\* the dispatch still calls every subscriber that was registered when it
\* began.
C35_RegistrationInsideDispatchSucceeds ==
    ev = "scroll_registering" =>
        /\ ~panicked
        /\ \E n \in 1..(Len(callbacks) - 1) :
               /\ calls = Dispatch(SubSeq(callbacks, 1, n), last_progress)
               /\ \A k \in (n + 1)..Len(callbacks) : callbacks[k] = call.args[1]

\* C36: on a container that keeps its position inside
\* [0, scroll_height - client_height], scroll_to_progress(p) with p in [0, 1]
\* followed by an accepted scroll event at the commanded position stores the
\* progress max(p, viewport_height / scroll_height), for every configured
\* offset_top and offset_bottom; scroll_to_progress(1.0) reaches 1.0.
C36_ScrollToProgressRoundTrip ==
    (ev = "scroll_accepted" /\ container.asked # NoContainer.asked) =>
        last_progress.progress =
            RatMax(container.asked,
                   Div(last_progress.viewport_height, last_progress.scroll_height))

\* C40: rate limiting drops intermediate updates only. After any scroll
\* event of a burst (one that follows an accepted scroll event), which may
\* be the last of the burst, the stored scroll_y is the container's
\* scroll_top + offset_top; after any resize event of a burst the stored
\* extents are the container's measurements.
C40_LastEventOfBurstIsStored ==
    /\ (ev \in {"scroll_accepted", "scroll_rejected"} /\ scroll_accepted_at # -1) =>
           last_progress.scroll_y = container.scroll_top + cfg.offset_top
    /\ (ev \in {"resize_accepted", "resize_rejected"} /\ resize_accepted_at # -1) =>
           LET m == Measure(container, RoundWindow)
           IN  /\ last_progress.scroll_height = m.scroll_height
               /\ last_progress.viewport_height = m.viewport_height

\* C40 amended: rate limiting drops every event that arrives inside the
\* window, the last of a burst included. An accepted scroll event stores the
\* container's scroll_top + offset_top and delivers the progress of that
\* position, and an accepted resize event stores the container's
\* measurements; a rejected event leaves the stored value as the last
\* accepted event left it, whatever the container's position or size is by
\* then.
C40_OnlyAcceptedEventsAreStored ==
    [][/\ ev' = "scroll_accepted" =>
              /\ last_progress'.scroll_y = container.scroll_top + cfg.offset_top
              /\ calls' = Dispatch(callbacks, last_progress')
       /\ ev' = "resize_accepted" =>
              LET m == Measure(container, RoundWindow)
              IN  /\ last_progress'.scroll_height = m.scroll_height
                  /\ last_progress'.viewport_height = m.viewport_height
                  /\ calls' = Dispatch(callbacks, last_progress')
       /\ ev' \in {"scroll_rejected", "resize_rejected"} =>
              /\ last_progress' = last_progress
              /\ calls' = <<>>
    ]_vars

\* the last scroll event was rejected and the stored scroll_y is not the
\* position the container has come to rest at
C40_Witness ==
    /\ ev = "scroll_rejected"
    /\ container # NoContainer
    /\ last_progress.scroll_y # container.scroll_top + cfg.offset_top

\* C37: every observe registers its callback under an id that no other
\* registered callback uses, however many observe calls came before: each
\* observed element's id still leads to that element's own callback.
C37_ObserveIdsAreUnique ==
    \A e \in observer.watched :
        /\ observer.attr[e] \in DOMAIN observer.map
        /\ observer.map[observer.attr[e]].element = e

\* C38: the entries of one batch are handled independently. Every
\* intersecting entry reported for an element observed with once = false
\* invokes that element's callback, whatever entries precede it in the
\* batch, and no callback is invoked more often than intersecting entries
\* were reported for its element.
C38_BatchEntriesAreIndependent ==
    \A e \in Elems :
        /\ observer.count[e] <= observer.hits[e]
        /\ observer.mode[e] = "always" => observer.count[e] = observer.hits[e]

\* history: the pairs (i, j) of subscriptions, j registered after i with no
\* delivery between the two registrations, one on_enter_range and the other
\* on_exit_range on the same range
Pairs ==
    {p \in (1..Len(subs)) \X (1..Len(subs)) : subs[p[2]].turn[p[1]] # "no"}

\* the on_enter_range subscription of a pair, and its on_exit_range one
EnterOf(p) == IF subs[p[1]].kind = "enter" THEN p[1] ELSE p[2]

ExitOf(p) == IF subs[p[1]].kind = "exit" THEN p[1] ELSE p[2]

\* C39: for an on_enter_range and an on_exit_range subscription on the same
\* range, registered on one tracker in either order with no delivery
\* between the two registrations, the two callbacks are called in strict
\* alternation beginning with the enter callback: a delivery calls at most
\* one of them, the enter callback only when none of the two or the exit
\* callback was called last, and the exit callback only when the enter
\* callback was called last; registering the second of them calls the exit
\* callback never.
C39_EnterAndExitAlternate ==
    [][IF Len(subs') = Len(subs)
       THEN \A p \in Pairs :
                /\ FiredNextOf(EnterOf(p)) = {} \/ FiredNextOf(ExitOf(p)) = {}
                /\ Cardinality(FiredNextOf(EnterOf(p))) <= 1
                /\ Cardinality(FiredNextOf(ExitOf(p))) <= 1
                /\ (FiredNextOf(EnterOf(p)) # {} =>
                       subs[p[2]].turn[p[1]] \in {"none", "exit"})
                /\ (FiredNextOf(ExitOf(p)) # {} =>
                       subs[p[2]].turn[p[1]] = "enter")
       ELSE \A i \in 1..Len(subs) :
                subs'[Len(subs')].turn[i] = "no"
                    \/ \A k \in 1..Len(fired') :
                           subs'[fired'[k].sub].kind # "exit"]_vars

\* an exit callback was just called, after the enter callback of its pair,
\* which had been registered after it and not straight away
C39_Witness ==
    \E p \in Pairs :
        /\ ExitOf(p) = p[1]
        /\ ~cfg.run_straight_away
        /\ subs[p[2]].turn[p[1]] = "exit"
        /\ FiredOf(ExitOf(p)) # {}

====
